---------------------------- MODULE Spec2Model ----------------------------
(***************************************************************************)
(* A model of the story downloader of src/app.py: the input classifier     *)
(* (parse_instagram_input), the identity resolver (get_user_id and its     *)
(* five strategies), the story extractor (_extract_story), the transport   *)
(* (_request) and the /api/stories handler (get_stories) that drives them. *)
(*                                                                         *)
(* Representation of Python values:                                        *)
(*   str   a sequence of one-character strings, <<"f","o","o">>; the fixed *)
(*         texts of error messages are TLA+ strings;                       *)
(*   dict  a record; a key is present iff it is in the DOMAIN;             *)
(*   None  the record PyNone; other JSON values are tagged records;        *)
(*   a call's outcome is Ok(v) (it returned v) or Raise(e) (it raised e).  *)
(***************************************************************************)
EXTENDS Integers, Sequences, FiniteSets, TLC

(***************************************************************************)
(* Outcomes of a Python call.                                              *)
(***************************************************************************)
Ok(v) == [ok |-> TRUE, val |-> v]
Raise(e) == [ok |-> FALSE, exc |-> e]

\* an exception: its class, its message (a fixed text and the value formatted
\* into it), and the status_code of an InstagramError (0 for other classes)
Exc(type) == [type |-> type, text |-> "", arg |-> <<>>, status_code |-> 0]
ValueError(text) == [type |-> "ValueError", text |-> text, arg |-> <<>>, status_code |-> 0]
InstagramError(text, arg, status_code) ==
    [type |-> "InstagramError", text |-> text, arg |-> arg, status_code |-> status_code]

PyNone == [t |-> "None"]

(***************************************************************************)
(* Python str operations, on sequences of characters.                      *)
(***************************************************************************)
UpperChars == <<"A","B","C","D","E","F","G","H","I","J","K","L","M",
                "N","O","P","Q","R","S","T","U","V","W","X","Y","Z">>
LowerChars == <<"a","b","c","d","e","f","g","h","i","j","k","l","m",
                "n","o","p","q","r","s","t","u","v","w","x","y","z">>
DigitChars == <<"0","1","2","3","4","5","6","7","8","9">>

Range(s) == {s[i] : i \in DOMAIN s}

\* str.isalpha() of one ASCII character
IsAlpha(c) == c \in Range(UpperChars) \cup Range(LowerChars)

\* one character of str.lower()
LowerChar(c) ==
    IF c \in Range(UpperChars)
    THEN LowerChars[CHOOSE i \in DOMAIN UpperChars : UpperChars[i] = c]
    ELSE c

\* str.lower()
StrLower(s) == [i \in DOMAIN s |-> LowerChar(s[i])]

\* s[a:b] of Python with 1-based inclusive bounds a..b
Slice(s, a, b) == IF a > b THEN <<>> ELSE SubSeq(s, a, b)

\* str.find(c, start): the least index >= start holding c, 0 when there is none
Find(s, c, start) ==
    IF \E i \in start..Len(s) : s[i] = c
    THEN CHOOSE i \in start..Len(s) :
            s[i] = c /\ \A j \in start..(i - 1) : s[j] # c
    ELSE 0

\* sub in s
Contains(s, sub) ==
    \E i \in 1..(Len(s) - Len(sub) + 1) : SubSeq(s, i, i + Len(sub) - 1) = sub

\* str.strip(): whitespace removed at both ends.  str.isspace() of an ASCII
\* character: space, tab, LF, VT, FF, CR and the separators FS, GS, RS, US
\* (codes 9-13 and 28-32).  The inputs are ASCII text.
Whitespace == {" ", "\t", "\n", "", "\f", "\r", "", "", "", ""}

IsSpace(c) == c \in Whitespace

RECURSIVE LStripSpace(_)
LStripSpace(s) ==
    IF s # <<>> /\ IsSpace(Head(s)) THEN LStripSpace(Tail(s)) ELSE s

RECURSIVE RStripSpace(_)
RStripSpace(s) ==
    IF s # <<>> /\ IsSpace(s[Len(s)])
    THEN RStripSpace(SubSeq(s, 1, Len(s) - 1))
    ELSE s

StrStrip(s) == RStripSpace(LStripSpace(s))

\* str.lstrip(c): every leading c removed
RECURSIVE StrLStrip(_, _)
StrLStrip(s, c) ==
    IF s # <<>> /\ Head(s) = c THEN StrLStrip(Tail(s), c) ELSE s

\* text t ends with the text e
EndsWith(t, e) == Len(t) >= Len(e) /\ SubSeq(t, Len(t) - Len(e) + 1, Len(t)) = e

\* c.join(parts)
RECURSIVE StrJoin(_, _)
StrJoin(parts, c) ==
    IF parts = <<>> THEN <<>>
    ELSE IF Len(parts) = 1 THEN parts[1]
    ELSE parts[1] \o <<c>> \o StrJoin(Tail(parts), c)

\* str.split(c): the pieces between the occurrences of c, empty ones kept
RECURSIVE StrSplit(_, _)
StrSplit(s, c) ==
    LET i == Find(s, c, 1)
    IN  IF i = 0 THEN <<s>>
        ELSE <<Slice(s, 1, i - 1)>> \o StrSplit(Slice(s, i + 1, Len(s)), c)

\* [p for p in parts if p]
RECURSIVE NonEmpty(_)
NonEmpty(parts) ==
    IF parts = <<>> THEN <<>>
    ELSE IF Head(parts) = <<>> THEN NonEmpty(Tail(parts))
    ELSE <<Head(parts)>> \o NonEmpty(Tail(parts))

\* the last position of x
ListIndexLast(l, x) ==
    CHOOSE i \in DOMAIN l : l[i] = x /\ \A j \in (i + 1)..Len(l) : l[j] # x

\* list.index(x): the first position of x (x is in the list)
ListIndex(l, x) == CHOOSE i \in DOMAIN l : l[i] = x /\ \A j \in 1..(i - 1) : l[j] # x

(***************************************************************************)
(* The texts the classifier looks for.                                     *)
(***************************************************************************)
ServiceDomain == <<"i","n","s","t","a","g","r","a","m",".","c","o","m">>
SegHighlights == <<"h","i","g","h","l","i","g","h","t","s">>
SegStories == <<"s","t","o","r","i","e","s">>

(***************************************************************************)
(* urllib.parse.urlparse, as far as parse_instagram_input uses it: the     *)
(* path of the URL, or the ValueError urlsplit raises for a host with an   *)
(* unbalanced bracket.  The inputs of urlparse are over an alphabet        *)
(* without control characters, ';', ']' and non-ASCII characters, which    *)
(* urlparse treats specially.                                              *)
(***************************************************************************)
\* url.lstrip(_WHATWG_C0_CONTROL_OR_SPACE) of urlsplit: of the characters it
\* removes the alphabet holds the blank
UrlLStrip(url) == StrLStrip(url, " ")

SchemeChars == Range(UpperChars) \cup Range(LowerChars) \cup Range(DigitChars)
                 \cup {"+", "-", "."}

\* the text with its scheme removed (urlsplit: i = url.find(':') ...)
AfterScheme(url) ==
    LET i == Find(url, ":", 1)
    IN  IF i > 1 /\ IsAlpha(url[1]) /\ \A j \in 1..(i - 1) : url[j] \in SchemeChars
        THEN Slice(url, i + 1, Len(url))
        ELSE url

\* the position where the netloc of "//netloc..." ends (_splitnetloc)
NetlocEnd(url) ==
    LET ds == {Find(url, c, 3) : c \in {"/", "?", "#"}} \ {0}
    IN  IF ds = {} THEN Len(url) + 1
        ELSE CHOOSE d \in ds : \A e \in ds : d <= e

\* text before the first c, the whole text when c does not occur
Before(s, c) ==
    LET i == Find(s, c, 1) IN IF i = 0 THEN s ELSE Slice(s, 1, i - 1)

UrlPath(user_input) ==
    LET url == AfterScheme(UrlLStrip(user_input))
        hasNetloc == Len(url) >= 2 /\ url[1] = "/" /\ url[2] = "/"
        netloc == IF hasNetloc THEN Slice(url, 3, NetlocEnd(url) - 1) ELSE <<>>
        rest == IF hasNetloc THEN Slice(url, NetlocEnd(url), Len(url)) ELSE url
    IN  IF ("[" \in Range(netloc)) # ("]" \in Range(netloc))
        THEN Raise(ValueError("Invalid IPv6 URL"))
        ELSE Ok(Before(Before(rest, "#"), "?"))

(***************************************************************************)
(* parse_instagram_input: (type, value), or ValueError.                    *)
(***************************************************************************)
PathParts(path) == NonEmpty(StrSplit(path, "/"))

\* the classification with the "stories" test ahead of the "highlights" test
ClassifyPathStoriesFirst(path_parts) ==
    IF SegStories \in Range(path_parts)
    THEN LET idx == ListIndex(path_parts, SegStories)
         IN  IF Len(path_parts) > idx
             THEN Ok(<<"username", path_parts[idx + 1]>>)
             ELSE Raise(ValueError("Invalid stories URL"))
    ELSE IF SegHighlights \in Range(path_parts)
    THEN LET idx == ListIndex(path_parts, SegHighlights)
         IN  IF Len(path_parts) > idx
             THEN Ok(<<"highlight", path_parts[idx + 1]>>)
             ELSE Raise(ValueError("Invalid highlight URL"))
    ELSE IF path_parts # <<>>
    THEN Ok(<<"username", path_parts[1]>>)
    ELSE Raise(ValueError("Could not parse Instagram URL"))

\* the classification that falls back to the profile shape when "stories" is
\* the last segment
ClassifyPathLenient(path_parts) ==
    IF SegHighlights \in Range(path_parts)
    THEN LET idx == ListIndex(path_parts, SegHighlights)
         IN  IF Len(path_parts) > idx
             THEN Ok(<<"highlight", path_parts[idx + 1]>>)
             ELSE Raise(ValueError("Invalid highlight URL"))
    ELSE IF path_parts # <<>>
    THEN LET idx == IF SegStories \in Range(path_parts)
                    THEN ListIndex(path_parts, SegStories) ELSE 0
         IN  Ok(<<"username", path_parts[IF Len(path_parts) > idx THEN idx + 1 ELSE 1]>>)
    ELSE Raise(ValueError("Could not parse Instagram URL"))

\* lines 550-571
ClassifyPath(path_parts) ==
    IF SegHighlights \in Range(path_parts)
    THEN LET idx == ListIndex(path_parts, SegHighlights)
         IN  IF Len(path_parts) > idx
             THEN Ok(<<"highlight", path_parts[idx + 1]>>)
             ELSE Raise(ValueError("Invalid highlight URL"))
    ELSE IF SegStories \in Range(path_parts)
    THEN LET idx == ListIndex(path_parts, SegStories)
         IN  IF Len(path_parts) > idx
             THEN Ok(<<"username", path_parts[idx + 1]>>)
             ELSE Raise(ValueError("Invalid stories URL"))
    ELSE IF path_parts # <<>>
    THEN Ok(<<"username", path_parts[1]>>)
    ELSE Raise(ValueError("Could not parse Instagram URL"))

\* the handle with its case kept
PlainUsernameKeepCase(user_input) == StrLStrip(user_input, "@")

\* line 574
PlainUsername(user_input) == StrLower(StrLStrip(user_input, "@"))

parse_instagram_input(user_input0) ==
    LET user_input == StrStrip(user_input0)
    IN  IF Contains(user_input, ServiceDomain)
        THEN LET parsed == UrlPath(user_input)
             IN  IF parsed.ok THEN ClassifyPath(PathParts(parsed.val)) ELSE parsed
        ELSE Ok(<<"username", PlainUsername(user_input)>>)

(***************************************************************************)
(* JSON values of the upstream payloads.                                   *)
(***************************************************************************)
JInt(n) == [t |-> "int", v |-> n]
JStr(s) == [t |-> "str", v |-> s]
JList(l) == [t |-> "list", v |-> l]
JDict(d) == [t |-> "dict", v |-> d]
EmptyDict == JDict(<<>>)
EmptyList == JList(<<>>)

IsDict(x) == x.t = "dict"
IsList(x) == x.t = "list"
IsInt(x) == x.t = "int"
HasKey(d, k) == k \in DOMAIN d.v

\* d.get(k, default), d a dict
Get(d, k, default) == IF HasKey(d, k) THEN d.v[k] ELSE default

\* bool(x)
Truthy(x) ==
    CASE x.t = "None" -> FALSE
      [] x.t = "int" -> x.v # 0
      [] x.t = "str" -> x.v # <<>>
      [] x.t = "list" -> x.v # <<>>
      [] x.t = "dict" -> DOMAIN x.v # {}

\* str(n), n an int
RECURSIVE NatToStr(_)
NatToStr(n) ==
    IF n < 10 THEN <<DigitChars[n + 1]>>
    ELSE NatToStr(n \div 10) \o <<DigitChars[(n % 10) + 1]>>

IntToStr(n) == IF n < 0 THEN <<"-">> \o NatToStr(-n) ELSE NatToStr(n)

\* str(x), x a str, an int or None
PyStr(x) ==
    CASE x.t = "str" -> x
      [] x.t = "int" -> JStr(IntToStr(x.v))
      [] x.t = "None" -> JStr(<<"N","o","n","e">>)

(***************************************************************************)
(* _extract_story.  CandidateKey is the lambda of lines 498 and 505,       *)
(* BestCandidate the max() over the candidates.                            *)
(***************************************************************************)
\* n * s of Python, s a str or a list and n an int: s repeated n times
Repeat(s, n) ==
    IF n <= 0 \/ s = <<>> THEN <<>>
    ELSE [i \in 1..(n * Len(s)) |-> s[((i - 1) % Len(s)) + 1]]

\* w * h: the product of two ints, a str or a list repeated by an int,
\* TypeError for any other pair
CandidateArea(w, h) ==
    CASE IsInt(w) /\ IsInt(h) -> Ok(JInt(w.v * h.v))
      [] IsInt(w) /\ h.t \in {"str", "list"} -> Ok([t |-> h.t, v |-> Repeat(h.v, w.v)])
      [] w.t \in {"str", "list"} /\ IsInt(h) -> Ok([t |-> w.t, v |-> Repeat(w.v, h.v)])
      [] OTHER -> Raise(Exc("TypeError"))

CandidateKey(c) ==
    IF ~IsDict(c) THEN Raise(Exc("AttributeError"))
    ELSE CandidateArea(Get(c, "width", JInt(0)), Get(c, "height", JInt(0)))

\* the printable ASCII characters in the order of their codes, but for the
\* grave accent
Ascii ==
    <<" ", "!", "\"", "#", "$", "%", "&", "'", "(", ")", "*", "+", ",", "-", ".", "/",
      "0", "1", "2", "3", "4", "5", "6", "7", "8", "9", ":", ";", "<", "=", ">", "?",
      "@", "A", "B", "C", "D", "E", "F", "G", "H", "I", "J", "K", "L", "M", "N", "O",
      "P", "Q", "R", "S", "T", "U", "V", "W", "X", "Y", "Z", "[", "\\", "]", "^", "_",
      "a", "b", "c", "d", "e", "f", "g", "h", "i", "j", "k", "l", "m", "n", "o",
      "p", "q", "r", "s", "t", "u", "v", "w", "x", "y", "z", "{", "|", "}", "~">>

Ord(c) == CHOOSE i \in DOMAIN Ascii : Ascii[i] = c

\* a == b of two JSON values
RECURSIVE PyEq(_, _)
PyEq(a, b) ==
    IF a.t # b.t THEN FALSE
    ELSE CASE a.t = "None" -> TRUE
           [] a.t = "list" ->
                /\ Len(a.v) = Len(b.v)
                /\ \A i \in DOMAIN a.v : PyEq(a.v[i], b.v[i])
           [] a.t = "dict" ->
                /\ DOMAIN a.v = DOMAIN b.v
                /\ \A k \in DOMAIN a.v : PyEq(a.v[k], b.v[k])
           [] OTHER -> a.v = b.v

\* position i of the sequences x and y holds equal elements: characters of
\* two strs, or items of two lists
SameAt(x, y, i, ofLists) == IF ofLists THEN PyEq(x[i], y[i]) ELSE x[i] = y[i]

\* the first position where two sequences differ, 0 when one is a prefix of
\* the other
FirstDifference(x, y, ofLists) ==
    IF \E i \in 1..Len(x) : i <= Len(y) /\ ~SameAt(x, y, i, ofLists)
    THEN CHOOSE i \in 1..Len(x) :
            /\ i <= Len(y) /\ ~SameAt(x, y, i, ofLists)
            /\ \A j \in 1..(i - 1) : SameAt(x, y, j, ofLists)
    ELSE 0

\* a > b of two JSON values: ints by value, strs and lists in lexicographic
\* order, TypeError for any other pair
RECURSIVE PyGreater(_, _)
PyGreater(a, b) ==
    CASE IsInt(a) /\ IsInt(b) -> Ok(a.v > b.v)
      [] a.t = "str" /\ b.t = "str" ->
            IF FirstDifference(a.v, b.v, FALSE) = 0 THEN Ok(Len(a.v) > Len(b.v))
            ELSE Ok(Ord(a.v[FirstDifference(a.v, b.v, FALSE)])
                      > Ord(b.v[FirstDifference(a.v, b.v, FALSE)]))
      [] IsList(a) /\ IsList(b) ->
            IF FirstDifference(a.v, b.v, TRUE) = 0 THEN Ok(Len(a.v) > Len(b.v))
            ELSE PyGreater(a.v[FirstDifference(a.v, b.v, TRUE)],
                           b.v[FirstDifference(a.v, b.v, TRUE)])
      [] OTHER -> Raise(Exc("TypeError"))

\* max(l, key=...) from item i on, item best with key bestKey being the
\* greatest so far: the key of each item is computed and compared in turn,
\* and an item replaces the best one when its key is greater (keepLast: or
\* equal)
RECURSIVE MaxFrom(_, _, _, _, _)
Replaces(key, bestKey, keepLast) ==
    IF ~PyGreater(key, bestKey).ok THEN PyGreater(key, bestKey)
    ELSE Ok(PyGreater(key, bestKey).val \/ (keepLast /\ PyEq(key, bestKey)))

MaxStep(l, i, best, bestKey, keepLast, key) ==
    IF ~key.ok THEN key
    ELSE IF ~Replaces(key.val, bestKey, keepLast).ok
    THEN Replaces(key.val, bestKey, keepLast)
    ELSE IF Replaces(key.val, bestKey, keepLast).val
    THEN MaxFrom(l, i + 1, i, key.val, keepLast)
    ELSE MaxFrom(l, i + 1, best, bestKey, keepLast)

MaxFrom(l, i, best, bestKey, keepLast) ==
    IF i > Len(l) THEN Ok(l[best])
    ELSE MaxStep(l, i, best, bestKey, keepLast, CandidateKey(l[i]))

MaxByKey(l, keepLast, key1) ==
    IF ~key1.ok THEN key1 ELSE MaxFrom(l, 2, 1, key1.val, keepLast)

\* a max() that keeps the last of the elements with the greatest key
BestCandidateLast(l) == MaxByKey(l, TRUE, CandidateKey(l[1]))

\* max(l, key=lambda x: x.get("width", 0) * x.get("height", 0)), l not empty
BestCandidate(l) == MaxByKey(l, FALSE, CandidateKey(l[1]))

\* best.get("url")
UrlOf(best) == IF best.ok THEN Ok(Get(best.val, "url", PyNone)) ELSE best

\* "if candidates: best = max(candidates, ...); ... = best.get("url")": the URL
\* chosen, None when the list is falsy; iterating a truthy non-list raises
BestUrl(candidates) ==
    IF ~Truthy(candidates) THEN Ok(PyNone)
    ELSE IF ~IsList(candidates)
    THEN Raise(Exc(IF candidates.t = "int" THEN "TypeError" ELSE "AttributeError"))
    ELSE UrlOf(BestCandidate(candidates.v))

\* the thumbnail chosen for images only
ThumbnailUrlOfImage(data) ==
    IF ~HasKey(data, "image_versions2") \/ Get(data, "media_type", JInt(1)) = JInt(2)
    THEN Ok(PyNone)
    ELSE IF ~IsDict(data.v.image_versions2) THEN Raise(Exc("AttributeError"))
    ELSE BestUrl(Get(data.v.image_versions2, "candidates", EmptyList))

\* lines 495-499
ThumbnailUrl(data) ==
    IF ~HasKey(data, "image_versions2") THEN Ok(PyNone)
    ELSE IF ~IsDict(data.v.image_versions2) THEN Raise(Exc("AttributeError"))
    ELSE BestUrl(Get(data.v.image_versions2, "candidates", EmptyList))

\* the video chosen whatever the media type
VideoUrlAnyType(data) ==
    IF HasKey(data, "video_versions")
    THEN BestUrl(data.v.video_versions)
    ELSE Ok(PyNone)

\* lines 502-506
VideoUrl(data) ==
    IF Get(data, "media_type", PyNone) = JInt(2) /\ HasKey(data, "video_versions")
    THEN BestUrl(data.v.video_versions)
    ELSE Ok(PyNone)

\* lines 483-488
UserSummary(user) ==
    [pk |-> PyStr(Get(user, "pk", JStr(<<>>))),
     username |-> Get(user, "username", JStr(<<>>)),
     full_name |-> Get(user, "full_name", JStr(<<>>)),
     profile_pic_url |-> Get(user, "profile_pic_url", JStr(<<>>))]

\* the story of lines 477-492 with the two URLs of lines 494-506
StoryOf(data, thumb, video) ==
    IF ~thumb.ok THEN thumb
    ELSE IF ~video.ok THEN video
    ELSE Ok([t |-> "story",
             pk |-> PyStr(Get(data, "pk", JStr(<<>>))),
             id |-> Get(data, "id", JStr(<<>>)),
             code |-> Get(data, "code", JStr(<<>>)),
             taken_at |-> Get(data, "taken_at", JInt(0)),
             media_type |-> Get(data, "media_type", JInt(1)),
             user |-> UserSummary(Get(data, "user", EmptyDict)),
             thumbnail_url |-> thumb.val,
             video_url |-> video.val,
             video_duration |-> Get(data, "video_duration", JInt(0))])

\* the body of the try block, lines 477-508
ExtractBody(data) ==
    IF ~IsDict(data) THEN Raise(Exc("AttributeError"))
    ELSE IF ~IsDict(Get(data, "user", EmptyDict)) THEN Raise(Exc("AttributeError"))
    ELSE StoryOf(data, ThumbnailUrl(data), VideoUrl(data))

\* lines 509-511: "except Exception": logged, and None returned
NoneOnException(outcome) == IF outcome.ok THEN outcome ELSE Ok(PyNone)

\* the function without its "except Exception"
ExtractStoryUncaught(data) == ExtractBody(data)

\* lines 474-511
_extract_story(data) == NoneOnException(ExtractBody(data))

(***************************************************************************)
(* Raw items as the upstream serves them.  A candidate list has at most    *)
(* MaxCands entries; entry i carries the URL <prefix>i, so that the entry  *)
(* chosen is recognisable.                                                 *)
(***************************************************************************)
MaxCands == 2

CandKinds == {"1x1", "1x2", "2x1", "2x2", "w2", "h2", "nourl", "null", "wnull", "wstr"}

CandUrl(prefix, i) == JStr(<<prefix>> \o IntToStr(i))

Cand(prefix, kind, i) ==
    CASE kind = "1x1" -> JDict([width |-> JInt(1), height |-> JInt(1), url |-> CandUrl(prefix, i)])
      [] kind = "1x2" -> JDict([width |-> JInt(1), height |-> JInt(2), url |-> CandUrl(prefix, i)])
      [] kind = "2x1" -> JDict([width |-> JInt(2), height |-> JInt(1), url |-> CandUrl(prefix, i)])
      [] kind = "2x2" -> JDict([width |-> JInt(2), height |-> JInt(2), url |-> CandUrl(prefix, i)])
      [] kind = "w2" -> JDict([width |-> JInt(2), url |-> CandUrl(prefix, i)])
      [] kind = "h2" -> JDict([height |-> JInt(2), url |-> CandUrl(prefix, i)])
      [] kind = "nourl" -> JDict([width |-> JInt(2), height |-> JInt(2)])
      [] kind = "null" -> PyNone
      [] kind = "wnull" -> JDict([width |-> PyNone, height |-> JInt(2), url |-> CandUrl(prefix, i)])
      [] kind = "wstr" -> JDict([width |-> JStr(<<"a">>), height |-> JInt(2), url |-> CandUrl(prefix, i),
                                 scans_profile |-> JStr(<<"e">>)])

CandLists(prefix, n) ==
    {JList([i \in DOMAIN f |-> Cand(prefix, f[i], i)]) :
        f \in UNION {[1..k -> CandKinds] : k \in 0..n}}

\* the fields an item may carry, each a function on its own key or <<>> (absent)
MediaTypeFields == {<<>>, "media_type" :> JInt(1), "media_type" :> JInt(2)}

UserFields ==
    {<<>>, "user" :> PyNone,
     "user" :> JDict([pk |-> JInt(9), username |-> JStr(<<"b","o","b">>)])}

ImageFieldsOf(lists) ==
    {<<>>, "image_versions2" :> PyNone, "image_versions2" :> EmptyDict}
      \cup {"image_versions2" :> JDict([candidates |-> l]) : l \in lists}

VideoFieldsOf(lists) ==
    {<<>>, "video_versions" :> PyNone} \cup {"video_versions" :> l : l \in lists}

FewImageLists ==
    {JList(<<Cand("i", "1x1", 1), Cand("i", "2x2", 2)>>),
     JList(<<Cand("i", "null", 1)>>)}

FewVideoLists ==
    {JList(<<Cand("v", "1x1", 1), Cand("v", "2x2", 2)>>),
     JList(<<Cand("v", "wnull", 1)>>)}

ItemOf(m, u, im, vi) ==
    JDict([pk |-> JInt(17), id |-> JStr(<<"1","7","_","9">>)] @@ m @@ u @@ im @@ vi)

\* data is an item of the fields above, its image and video candidates from
\* the two sets of lists
IsItemOf(data, images, videos) ==
    \E m \in MediaTypeFields : \E u \in UserFields :
        \E im \in ImageFieldsOf(images) : \E vi \in VideoFieldsOf(videos) :
            data = ItemOf(m, u, im, vi)

\* data is a raw item: no dict at all, or an item with every list of MaxCands
\* candidates on one side and a few lists on the other
IsRawItem(data) ==
    \/ data \in {PyNone, JList(<<>>)}
    \/ IsItemOf(data, CandLists("i", MaxCands), FewVideoLists)
    \/ IsItemOf(data, FewImageLists, CandLists("v", MaxCands))

(***************************************************************************)
(* The extractor on its own: one raw item, and what _extract_story made of *)
(* it.                                                                     *)
(***************************************************************************)
VARIABLES item, extracted

Pending == [t |-> "pending"]

(***************************************************************************)
(* What one call through the shared session ends in, after the retry       *)
(* adapter has run: a response with a status and a body, or one of the     *)
(* exceptions of requests.                                                 *)
(***************************************************************************)
Timeout == [kind |-> "Timeout", status |-> 0, body |-> PyNone]
ConnectionError == [kind |-> "ConnectionError", status |-> 0, body |-> PyNone]
RetryError == [kind |-> "RetryError", status |-> 0, body |-> PyNone]
Http(status, body) == [kind |-> "http", status |-> status, body |-> body]

\* a body that is no JSON text
NotJson == [t |-> "notjson"]

\* session.get / session.post: the response, or the exception raised
SessionCall(reply) ==
    IF reply.kind = "http" THEN Ok(reply) ELSE Raise(Exc(reply.kind))

\* response.json()
ResponseJson(body) ==
    IF body = NotJson THEN Raise(Exc("JSONDecodeError")) ELSE Ok(body)

(***************************************************************************)
(* _request, lines 178-219.  response.json() of a body that is no JSON     *)
(* raises the JSONDecodeError of requests, a RequestException and a        *)
(* json.JSONDecodeError.                                                   *)
(***************************************************************************)
NoArg == <<>>

_request(reply) ==
    CASE reply.kind = "Timeout" ->
            Raise(InstagramError("Request timed out", NoArg, 504))
      [] reply.kind = "ConnectionError" ->
            Raise(InstagramError("Connection error", NoArg, 503))
      [] reply.kind = "RetryError" ->
            Raise(InstagramError("Request failed: %s", NoArg, 500))
      [] reply.kind = "http" /\ reply.status = 200 ->
            IF reply.body = NotJson
            THEN Raise(InstagramError("Request failed: %s", NoArg, 500))
            ELSE Ok(reply.body)
      [] reply.kind = "http" /\ reply.status = 400 ->
            IF reply.body = NotJson
            THEN Raise(InstagramError("Bad request: %s", NoArg, 400))
            ELSE IF ~IsDict(reply.body) THEN Raise(Exc("AttributeError"))
            ELSE IF HasKey(reply.body, "message")
            THEN Raise(InstagramError("%s", reply.body.v.message.v, 400))
            ELSE Raise(InstagramError("Bad request", NoArg, 400))
      [] reply.kind = "http" /\ reply.status = 401 ->
            Raise(InstagramError("Session expired - please update session credentials",
                                 NoArg, 401))
      [] reply.kind = "http" /\ reply.status = 404 ->
            Raise(InstagramError("Not found", NoArg, 404))
      [] reply.kind = "http" /\ reply.status = 429 ->
            Raise(InstagramError("Rate limited - please wait before trying again",
                                 NoArg, 429))
      [] OTHER ->
            Raise(InstagramError("Request failed with status %s",
                                 IntToStr(reply.status), reply.status))

(***************************************************************************)
(* The lookup strategies of the resolver.                                  *)
(***************************************************************************)
\* The profile page, as the four searches of lines 362-379 see it: the digits
\* the first match of pattern 1, 2 and 4 captures (<<>>: no match), and for
\* pattern 3 the {"id": ..., "username": ...} objects of the page, in order.
Page(p1, p2, p3, p4) == [t |-> "page", p1 |-> p1, p2 |-> p2, p3 |-> p3, p4 |-> p4]

\* re.search of pattern 3: the id of the first object carrying the username
RECURSIVE SearchIdOfUsername(_, _)
SearchIdOfUsername(objs, username) ==
    IF objs = <<>> THEN <<>>
    ELSE IF Head(objs).username = username THEN Head(objs).id
    ELSE SearchIdOfUsername(Tail(objs), username)

\* lines 345-381
_get_user_id_from_page(username, reply) ==
    LET response == SessionCall(reply)
    IN  IF ~response.ok THEN response
        ELSE IF reply.status # 200 THEN Ok(PyNone)
        ELSE LET text == reply.body
                 m3 == SearchIdOfUsername(text.p3, username)
             IN  IF text.p1 # <<>> THEN Ok(JStr(text.p1))
                 ELSE IF text.p2 # <<>> THEN Ok(JStr(text.p2))
                 ELSE IF m3 # <<>> THEN Ok(JStr(m3))
                 ELSE IF text.p4 # <<>> THEN Ok(JStr(text.p4))
                 ELSE Ok(PyNone)

\* "for user_data in users: ..." of lines 312-315 and 402-405: the id of the
\* first entry whose username equals the one sought, case-insensitively
RECURSIVE ScanUsers(_, _, _)
ScanUsers(users, username, idkey) ==
    IF users = <<>> THEN Ok(PyNone)
    ELSE LET user_data == Head(users)
         IN  IF ~IsDict(user_data) THEN Raise(Exc("AttributeError"))
             ELSE LET user == Get(user_data, "user", EmptyDict)
                  IN  IF ~IsDict(user) THEN Raise(Exc("AttributeError"))
                      ELSE LET name == Get(user, "username", JStr(<<>>))
                           IN  IF name.t # "str" THEN Raise(Exc("AttributeError"))
                               ELSE IF StrLower(name.v) = StrLower(username)
                               THEN IF HasKey(user, idkey)
                                    THEN Ok(PyStr(user.v[idkey]))
                                    ELSE Raise(Exc("KeyError"))
                               ELSE ScanUsers(Tail(users), username, idkey)

\* the loop over a value that may be no list: a dict or a str yields strings,
\* which have no .get; other values cannot be iterated
ScanValue(users, username, idkey) ==
    IF IsList(users) THEN ScanUsers(users.v, username, idkey)
    ELSE IF users.t \in {"dict", "str"}
    THEN IF Truthy(users) THEN Raise(Exc("AttributeError")) ELSE Ok(PyNone)
    ELSE Raise(Exc("TypeError"))

\* lines 272-317
_get_user_id_graphql(username, reply) ==
    LET response == SessionCall(reply)
    IN  IF ~response.ok THEN response
        ELSE IF reply.status # 200 THEN Ok(PyNone)
        ELSE LET result == ResponseJson(reply.body)
             IN  IF ~result.ok THEN result
                 ELSE IF ~IsDict(result.val) THEN Raise(Exc("AttributeError"))
                 ELSE LET data == Get(result.val, "data", EmptyDict)
                      IN  IF ~IsDict(data) THEN Raise(Exc("AttributeError"))
                          ELSE LET conn == Get(data,
                                     "xdt_api__v1__fbsearch__topsearch_connection",
                                     EmptyDict)
                               IN  IF ~IsDict(conn) THEN Raise(Exc("AttributeError"))
                                   ELSE ScanValue(Get(conn, "users", EmptyList),
                                                  username, "id")

\* lines 319-343
_get_user_id_web_profile(username, reply) ==
    LET response == SessionCall(reply)
    IN  IF ~response.ok THEN response
        ELSE IF reply.status # 200 THEN Ok(PyNone)
        ELSE LET data == ResponseJson(reply.body)
             IN  IF ~data.ok THEN data
                 ELSE IF ~IsDict(data.val) THEN Raise(Exc("AttributeError"))
                 ELSE LET inner == Get(data.val, "data", EmptyDict)
                      IN  IF ~IsDict(inner) THEN Raise(Exc("AttributeError"))
                          ELSE LET user == Get(inner, "user", PyNone)
                               IN  IF ~Truthy(user) THEN Ok(PyNone)
                                   ELSE IF ~IsDict(user) THEN Raise(Exc("TypeError"))
                                   ELSE IF HasKey(user, "id")
                                   THEN Ok(PyStr(user.v.id))
                                   ELSE Raise(Exc("KeyError"))

\* lines 383-407
_get_user_id_search(username, reply) ==
    LET response == SessionCall(reply)
    IN  IF ~response.ok THEN response
        ELSE IF reply.status # 200 THEN Ok(PyNone)
        ELSE LET data == ResponseJson(reply.body)
             IN  IF ~data.ok THEN data
                 ELSE IF ~IsDict(data.val) THEN Raise(Exc("AttributeError"))
                 ELSE ScanValue(Get(data.val, "users", EmptyList), username, "pk")

\* the try body of method 5, lines 263-266
MobileLookup(username, reply) ==
    LET result == _request(reply)
    IN  IF ~result.ok THEN result
        ELSE IF ~IsDict(result.val) THEN Raise(Exc("AttributeError"))
        ELSE LET user == Get(result.val, "user", PyNone)
             IN  IF ~Truthy(user) THEN Ok(PyNone)
                 ELSE IF ~IsDict(user) THEN Raise(Exc("TypeError"))
                 ELSE IF HasKey(user, "pk") THEN Ok(PyStr(user.v.pk))
                 ELSE Raise(Exc("KeyError"))

\* "except Exception" of methods 1-4: every exception is logged and dropped
CatchException(outcome) == Ok(PyNone)

\* "except InstagramError" of method 5: only that class is dropped
CatchInstagramError(outcome) ==
    IF outcome.exc.type = "InstagramError" THEN Ok(PyNone) ELSE outcome

\* the normalization without lower()
NormalizeKeepCase(username) == StrLStrip(StrStrip(username), "@")

\* line 223
NormalizeUsername(username) == StrLStrip(StrStrip(StrLower(username)), "@")

\* line 270
UserNotFound(username) ==
    InstagramError("User '%s' not found. Please check the username.", username, 404)

(***************************************************************************)
(* The reel fetcher.                                                       *)
(***************************************************************************)
\* "if story: stories.append(story)"
KeepStory(story) == IF story = PyNone THEN <<>> ELSE <<story>>

\* the loop that stops at the first item whose extraction fails
RECURSIVE ExtractUntilFailure(_)
ExtractUntilFailure(items) ==
    IF items = <<>> \/ _extract_story(Head(items)).val = PyNone THEN <<>>
    ELSE <<_extract_story(Head(items)).val>> \o ExtractUntilFailure(Tail(items))

\* "for item in items: story = self._extract_story(item); ..."
RECURSIVE ExtractAll(_)
ExtractAll(items) ==
    IF items = <<>> THEN <<>>
    ELSE KeepStory(_extract_story(Head(items)).val) \o ExtractAll(Tail(items))

\* the stories of an "items" value: a dict or a str yields strings, of which
\* _extract_story makes None; other values that are no list cannot be iterated
StoriesOf(items) ==
    IF IsList(items) THEN Ok(ExtractAll(items.v))
    ELSE IF items.t \in {"dict", "str"} THEN Ok(<<>>)
    ELSE Raise(Exc("TypeError"))

\* result.get("reel", {}): a null reel kept as it is
ReelOrDefault(got) == IF got = PyNone THEN got ELSE IF Truthy(got) THEN got ELSE EmptyDict

\* result.get("reel") or {}
ReelOrEmpty(got) == IF Truthy(got) THEN got ELSE EmptyDict

StoriesOfReel(reel) ==
    IF ~IsDict(reel) THEN Raise(Exc("AttributeError"))
    ELSE StoriesOf(Get(reel, "items", EmptyList))

StoriesOfResult(result) ==
    IF ~result.ok THEN result
    ELSE IF ~IsDict(result.val) THEN Raise(Exc("AttributeError"))
    ELSE StoriesOfReel(ReelOrEmpty(Get(result.val, "reel", PyNone)))

\* lines 418-434
get_user_stories(reply) == StoriesOfResult(_request(reply))

\* f"highlight:{highlight_id}"
HighlightKey(highlight_id) ==
    <<"h","i","g","h","l","i","g","h","t",":">> \o highlight_id

\* lines 453-472; of highlight_info only the title is kept
HighlightResult(title, stories) ==
    IF ~stories.ok THEN stories
    ELSE Ok([title |-> title, stories |-> stories.val])

\* lines 450-472
HighlightOfReel(reel) ==
    IF ~IsDict(reel) THEN Raise(Exc("AttributeError"))
    ELSE IF \E k \in {"cover_media", "user"} : ~IsDict(Get(reel, k, EmptyDict))
    THEN Raise(Exc("AttributeError"))
    ELSE IF ~IsDict(Get(Get(reel, "cover_media", EmptyDict),
                        "cropped_image_version", EmptyDict))
    THEN Raise(Exc("AttributeError"))
    ELSE HighlightResult(Get(reel, "title", JStr(<<"H","i","g","h","l","i","g","h","t">>)),
                         StoriesOf(Get(reel, "items", EmptyList)))

\* an absent key answered with no stories
HighlightOfReelsOrEmpty(key, reels) ==
    IF IsDict(reels) /\ HasKey(reels, key) THEN HighlightOfReel(reels.v[key])
    ELSE Ok([title |-> JStr(<<>>), stories |-> <<>>])

\* lines 447-450: "if highlight_key not in reels: raise ...; reel = reels[...]";
\* the reels dict is keyed by texts, sequences of characters as HighlightKey makes
HighlightOfReels(key, reels) ==
    IF IsDict(reels)
    THEN IF HasKey(reels, key) THEN HighlightOfReel(reels.v[key])
         ELSE Raise(InstagramError("Highlight not found", <<>>, 404))
    ELSE IF IsList(reels) /\ JStr(key) \notin Range(reels.v)
    THEN Raise(InstagramError("Highlight not found", <<>>, 404))
    ELSE IF reels.t = "str" /\ ~Contains(reels.v, key)
    THEN Raise(InstagramError("Highlight not found", <<>>, 404))
    ELSE Raise(Exc("TypeError"))

HighlightOfResult(key, result) ==
    IF ~result.ok THEN result
    ELSE IF ~IsDict(result.val) THEN Raise(Exc("AttributeError"))
    ELSE HighlightOfReels(key, Get(result.val, "reels", EmptyDict))

\* lines 436-472
get_highlight_stories(highlight_id, reply) ==
    HighlightOfResult(HighlightKey(highlight_id), _request(reply))

\* lines 411-416
UserOfResult(result) ==
    IF ~result.ok
    THEN IF result.exc.type = "InstagramError" THEN Ok(EmptyDict) ELSE result
    ELSE IF ~IsDict(result.val) THEN Raise(Exc("AttributeError"))
    ELSE Ok(Get(result.val, "user", EmptyDict))

\* lines 409-416
get_user_info(reply) == UserOfResult(_request(reply))

(***************************************************************************)
(* What the upstream may answer to each call.                              *)
(***************************************************************************)
OtherName == <<"z","e","d">>

NoPage == Page(<<>>, <<>>, <<>>, <<>>)

PageReplies(u) ==
    {Timeout, Http(404, NoPage), Http(200, NoPage),
     Http(200, Page(<<"1","1">>, <<>>, <<>>, <<"1","4">>)),
     Http(200, Page(<<>>, <<"1","2">>, <<>>, <<>>)),
     Http(200, Page(<<>>, <<>>, <<[id |-> <<"9">>, username |-> OtherName],
                                   [id |-> <<"1","3">>, username |-> u]>>, <<>>)),
     Http(200, Page(<<>>, <<>>, <<[id |-> <<"9">>, username |-> OtherName]>>, <<>>)),
     Http(200, Page(<<>>, <<>>, <<>>, <<"1","4">>))}

\* an entry of a "users" list
UserEntry(fields) == JDict([user |-> JDict(fields)])

GraphqlBody(users) ==
    JDict([data |-> JDict([xdt_api__v1__fbsearch__topsearch_connection |->
                              JDict([users |-> users])])])

GraphqlReplies(u) ==
    {ConnectionError, Http(400, NotJson), Http(200, NotJson), Http(200, EmptyDict),
     Http(200, JDict([data |-> PyNone])),
     Http(200, GraphqlBody(JList(<<UserEntry([username |-> JStr(OtherName), id |-> JStr(<<"9">>)]),
                                   UserEntry([username |-> JStr(u), id |-> JStr(<<"2","1">>)])>>))),
     Http(200, GraphqlBody(JList(<<UserEntry([username |-> JStr(u)])>>))),
     Http(200, GraphqlBody(JList(<<UserEntry([username |-> JStr(OtherName), id |-> JStr(<<"9">>)])>>)))}

WebProfileBody(user) == JDict([data |-> JDict([user |-> user])])

WebProfileReplies(u) ==
    {Timeout, Http(404, NotJson), Http(200, NotJson), Http(200, EmptyDict),
     Http(200, JDict([data |-> PyNone])),
     Http(200, WebProfileBody(PyNone)),
     Http(200, WebProfileBody(JDict([id |-> JStr(<<"3","1">>), username |-> JStr(u)]))),
     Http(200, WebProfileBody(JDict([username |-> JStr(u)])))}

SearchReplies(u) ==
    {RetryError, Http(403, NotJson), Http(200, EmptyDict),
     Http(200, JDict([users |-> PyNone])),
     Http(200, JDict([users |-> JList(<<UserEntry([username |-> JStr(OtherName), pk |-> JInt(9)]),
                                       UserEntry([username |-> JStr(u), pk |-> JInt(41)])>>)])),
     Http(200, JDict([users |-> JList(<<UserEntry([username |-> JStr(u)])>>)]))}

MobileReplies(u) ==
    {Timeout, ConnectionError, RetryError,
     Http(400, JDict([message |-> JStr(<<"n","o">>)])), Http(401, EmptyDict),
     Http(403, EmptyDict), Http(404, EmptyDict),
     Http(200, EmptyDict), Http(200, JList(<<>>)),
     Http(200, JDict([user |-> PyNone])),
     Http(200, JDict([user |-> JDict([pk |-> JInt(51), username |-> JStr(u)])])),
     Http(200, JDict([user |-> JDict([username |-> JStr(u)])]))}

UserInfoReplies ==
    {Timeout, Http(401, EmptyDict), Http(200, EmptyDict), Http(200, JList(<<>>)),
     Http(200, JDict([user |-> PyNone])),
     Http(200, JDict([user |-> JDict([is_private |-> JInt(1)])])),
     Http(200, JDict([user |-> JDict([is_private |-> JInt(0)])]))}

GoodItem(n) ==
    JDict([pk |-> JInt(n), media_type |-> JInt(1),
           image_versions2 |-> JDict([candidates |->
               JList(<<Cand("i", "1x1", 1), Cand("i", "2x2", 2)>>)])])

BadItem == JDict([pk |-> JInt(0), user |-> PyNone])

ItemLists ==
    {JList(<<>>), JList(<<GoodItem(1)>>), JList(<<BadItem>>),
     JList(<<GoodItem(1), BadItem, GoodItem(2)>>), PyNone}

StoriesReplies ==
    {ConnectionError, RetryError, Http(401, EmptyDict), Http(404, EmptyDict),
     Http(200, EmptyDict), Http(200, JDict([reel |-> PyNone])),
     Http(200, JDict([reel |-> EmptyDict]))}
      \cup {Http(200, JDict([reel |-> JDict([items |-> l])])) : l \in ItemLists}

ReelsBody(key, reel) == JDict([reels |-> JDict(key :> reel)])

HighlightReplies(h) ==
    {Timeout, Http(401, EmptyDict), Http(404, EmptyDict),
     Http(200, EmptyDict), Http(200, JDict([reels |-> PyNone])),
     Http(200, ReelsBody(HighlightKey(OtherName), JDict([items |-> JList(<<GoodItem(1)>>)]))),
     Http(200, ReelsBody(HighlightKey(h), PyNone)),
     Http(200, ReelsBody(HighlightKey(h), JDict([user |-> PyNone])))}
      \cup {Http(200, ReelsBody(HighlightKey(h), JDict([items |-> l]))) : l \in ItemLists}

(***************************************************************************)
(* The "username" parameters a client may send: at most MaxPieces of the   *)
(* pieces below, concatenated.                                             *)
(***************************************************************************)
MaxPieces == 4

Pieces ==
    {<<"h","t","t","p","s",":","/","/">>,
     ServiceDomain \o <<"/">>,
     SegStories \o <<"/">>,
     SegHighlights \o <<"/">>,
     <<"F","o","o">>,
     <<"@">>, <<" ">>, <<"/">>, <<"?">>, <<"[">>}

RECURSIVE Concat(_)
Concat(ps) == IF ps = <<>> THEN <<>> ELSE Head(ps) \o Concat(Tail(ps))

\* text is made of at most n of the pieces
IsInputOf(text, pieces, n) ==
    \E k \in 0..n : \E ps \in [1..k -> pieces] : text = Concat(ps)

IsInput(text, n) == IsInputOf(text, Pieces, n)

\* the parameters of the requests that are followed through every answer of
\* the upstream and every step of the other threads: at most MaxShort of the
\* pieces that make a handle, a profile URL or a highlight URL
MaxShort == 2

ShortPieces ==
    {ServiceDomain \o <<"/">>,
     SegHighlights \o <<"/">>,
     <<"F","o","o">>,
     <<"@">>, <<" ">>}

(***************************************************************************)
(* One request to /api/stories, get_stories of lines 594-687, step by      *)
(* step: each step runs the handler up to and including its next upstream *)
(* call.                                                                   *)
(*   raw       the "username" parameter, until the handler overwrites it   *)
(*   pc        where the handler is                                        *)
(*   ref       what parse_instagram_input returned                         *)
(*   username  the normalized username inside get_user_id                  *)
(*   calls     the upstream calls made so far, each with how it ended:     *)
(*             "id" (a result, kept in the field id), "none" (no match) or *)
(*             "error" (it raised); "ok" or "error" for a fetch; a call    *)
(*             made through _request also keeps what the upstream answered *)
(*   resolved  how get_user_id ended                                       *)
(*   response  the response of the handler: status and error message       *)
(*   upstream  "up": the upstream answers each call in any of the ways     *)
(*             listed above; "down": it cannot be reached                  *)
(***************************************************************************)
VARIABLES raw, pc, ref, username, calls, resolved, response, upstream

(***************************************************************************)
(* One call through the session of the client (lines 119-130, 187):        *)
(*   method    the HTTP method of the call                                 *)
(*   attempts  what the upstream answered to each attempt made so far      *)
(*   total     the retries the policy still allows                         *)
(*   returned  what the session gave back to its caller, once it did       *)
(***************************************************************************)
VARIABLES method, attempts, total, returned

\* line 121
RetryTotal == 3

(***************************************************************************)
(* One request to /api/download (lines 690-743):                           *)
(*   media_url   its "url" parameter                                       *)
(*   media_type  its "type" parameter                                      *)
(*   fetched     the URLs requests.get was called with and sent out for    *)
(***************************************************************************)
VARIABLES media_url, media_type, fetched

proxy == <<media_url, media_type, fetched>>

(***************************************************************************)
(* The client of the process (lines 522-537) and the threads serving       *)
(* requests at the same time:                                              *)
(*   _client      the global: the instance held, NoClient for None         *)
(*   constructed  how many InstagramClient instances were constructed;     *)
(*                the instances are numbered as they are constructed       *)
(*   resets       how many times reset_client ran                          *)
(*   at           where each thread is in get_client                       *)
(*   using        the client get_client returned to each thread            *)
(***************************************************************************)
VARIABLES _client, constructed, resets, at, using

\* line 523: None
NoClient == 0

MaxThreads == 3

MaxResets == 1

Threads == 1..MaxThreads

shared == <<_client, constructed, resets, at, using>>

SharedIdle ==
    /\ _client = NoClient
    /\ constructed = 0
    /\ resets = 0
    /\ at = [t \in Threads |-> "request"]
    /\ using = [t \in Threads |-> NoClient]

others == <<method, attempts, total, returned, proxy, shared>>

ProxyIdle == media_url = <<>> /\ media_type = "image" /\ fetched = <<>>

OthersIdle ==
    /\ method = "GET"
    /\ attempts = <<>>
    /\ total = RetryTotal
    /\ returned = [t |-> "pending"]
    /\ ProxyIdle
    /\ SharedIdle

vars == <<raw, pc, ref, username, calls, resolved, response, upstream,
          item, extracted, others>>

\* the replies possible to a call whose replies are S when the upstream is up
Replies(S) == IF upstream = "down" THEN {ConnectionError} ELSE S

StrategyOrder == <<"page", "graphql", "web_profile", "search", "mobile">>

\* the answer to a call that is not made through _request is not kept
Unrecorded == [kind |-> "unrecorded", status |-> 0, body |-> PyNone]

Call(name, result, id, reply) ==
    [name |-> name, result |-> result, id |-> id, reply |-> reply]

\* how the outcome of one of the strategies 1-4 counts for the chain: "if
\* user_id:" keeps a truthy result only
ResultClass(outcome) ==
    IF ~outcome.ok THEN "error"
    ELSE IF Truthy(outcome.val) THEN "id" ELSE "none"

\* the same for method 5, which returns str(pk) whenever "user" is truthy
MobileClass(outcome) ==
    IF ~outcome.ok THEN "error"
    ELSE IF outcome.val = PyNone THEN "none" ELSE "id"

\* how a call of the fetcher ended
FetchClass(outcome) == IF outcome.ok THEN "ok" ELSE "error"

Respond(status, text, arg) ==
    [status |-> status, text |-> text, arg |-> arg, stories |-> <<>>]

RespondStories(stories) ==
    [status |-> 200, text |-> "", arg |-> NoArg, stories |-> stories]

\* lines 682-687: what the handler makes of an exception that reaches it
Boundary(exc) ==
    IF exc.type = "InstagramError"
    THEN Respond(exc.status_code, exc.text, exc.arg)
    ELSE Respond(500, "An unexpected error occurred", NoArg)

\* lines 636-641: the handler around get_user_id
ResolveFailed(exc, name) ==
    IF exc.type = "InstagramError" /\ exc.status_code = 404
    THEN Respond(404, "User '%s' not found", name)
    ELSE Boundary(exc)

InitRequest ==
    /\ pc = "request"
    /\ ref = PyNone
    /\ username = <<>>
    /\ calls = <<>>
    /\ resolved = Pending
    /\ response = Pending
    /\ item = PyNone
    /\ extracted = Pending
    /\ OthersIdle

Init ==
    /\ IsInputOf(raw, ShortPieces, MaxShort)
    /\ upstream \in {"up", "down"}
    /\ InitRequest

(***************************************************************************)
(* get_client (lines 526-531) and reset_client (lines 534-537), statement  *)
(* by statement, run by thread t of the process.                           *)
(***************************************************************************)
ClientUnchanged ==
    UNCHANGED <<method, attempts, total, returned, proxy, raw, pc, upstream, ref,
                username, calls, resolved, response, item, extracted>>

\* line 529: "if _client is None"
ClientTest(t) ==
    /\ at[t] = "request"
    /\ at' = [at EXCEPT ![t] = IF _client = NoClient THEN "construct" ELSE "return"]
    /\ UNCHANGED <<_client, constructed, resets, using>>
    /\ ClientUnchanged

\* line 530: "_client = InstagramClient()"
ClientConstruct(t) ==
    /\ at[t] = "construct"
    /\ constructed' = constructed + 1
    /\ _client' = constructed + 1
    /\ at' = [at EXCEPT ![t] = "return"]
    /\ UNCHANGED <<resets, using>>
    /\ ClientUnchanged

\* line 531: "return _client"
ClientReturn(t) ==
    /\ at[t] = "return"
    /\ using' = [using EXCEPT ![t] = _client]
    /\ at' = [at EXCEPT ![t] = "serve"]
    /\ UNCHANGED <<_client, constructed, resets>>
    /\ ClientUnchanged

\* lines 534-537, 816-821: POST /api/reset
ResetClient ==
    /\ resets < MaxResets
    /\ resets' = resets + 1
    /\ _client' = NoClient
    /\ UNCHANGED <<constructed, at, using>>
    /\ ClientUnchanged

\* lines 605-612, the parameter classified
Classified(parsed) ==
    IF ~parsed.ok
    THEN /\ response' = Respond(400, parsed.exc.text, NoArg)
         /\ pc' = "done"
         /\ ref' = ref
    ELSE /\ ref' = parsed.val
         /\ pc' = "parsed"
         /\ response' = response

\* lines 598-612: the parameter is read and classified
Receive ==
    /\ pc = "request"
    /\ IF raw = <<>>
       THEN /\ response' = Respond(400, "Username parameter is required", NoArg)
            /\ pc' = "done"
            /\ ref' = ref
       ELSE Classified(parse_instagram_input(raw))
    /\ UNCHANGED <<upstream, raw, username, calls, resolved, item, extracted, others>>

\* the thread that serves the request
Serving == CHOOSE t \in Threads : \A u \in Threads : t <= u

\* line 614: the request runs the statements of get_client
TakeClient ==
    /\ pc = "parsed"
    /\ ClientTest(Serving) \/ ClientConstruct(Serving) \/ ClientReturn(Serving)

\* the requests that other threads serve while the request is served
MaxOthers == 1

OtherThreads == {t \in Threads : t # Serving /\ t <= Serving + MaxOthers}

\* line 614 of another request, line 759 of /api/debug: a thread other than
\* the serving one runs a statement of get_client, at any time
OtherTakesClient ==
    \E t \in OtherThreads :
        ClientTest(t) \/ ClientConstruct(t) \/ ClientReturn(t)

\* POST /api/reset served by another thread, at any time; the request keeps
\* the client it holds
ResetMeanwhile == ResetClient

\* lines 617-645: the reference dispatched on the client get_client returned;
\* for a username get_user_id starts and normalizes it (line 223).  On None,
\* returned when a reset fell between lines 530 and 531, the method call
\* raises AttributeError, which line 685 answers.  The parameter is not read
\* again.
Dispatch ==
    /\ pc = "parsed"
    /\ at[Serving] = "serve"
    /\ raw' = <<>>
    /\ upstream' = upstream
    /\ IF using[Serving] = NoClient
       THEN /\ pc' = "done"
            /\ username' = username
            /\ response' = Boundary(Exc("AttributeError"))
       ELSE /\ response' = response
            /\ IF ref[1] = "highlight"
               THEN pc' = "highlight" /\ username' = username
               ELSE pc' = StrategyOrder[1] /\ username' = NormalizeUsername(ref[2])
    /\ UNCHANGED <<ref, calls, resolved, item, extracted, others>>

\* where get_user_id goes after strategy k
NextStepNoStop(k, found) ==
    IF k < Len(StrategyOrder) THEN StrategyOrder[k + 1] ELSE "done"

NextStep(k, found) ==
    IF found THEN "info"
    ELSE IF k < Len(StrategyOrder) THEN StrategyOrder[k + 1] ELSE "done"

\* methods 1-4 of get_user_id: the strategy is called in a try block whose
\* "except Exception" drops what it raises; a truthy result is returned
Strategy(k, outcome) ==
    LET user_id == IF outcome.ok THEN outcome ELSE CatchException(outcome)
        found == Truthy(user_id.val)
    IN  /\ calls' = Append(calls, Call(StrategyOrder[k], ResultClass(outcome),
                                        IF found THEN user_id.val ELSE PyNone,
                                        Unrecorded))
        /\ pc' = NextStep(k, found)
        /\ resolved' = IF found THEN user_id ELSE resolved
        /\ UNCHANGED <<upstream, raw, ref, username, response, item, extracted, others>>

StrategyPage ==
    /\ pc = StrategyOrder[1]
    /\ \E reply \in Replies(PageReplies(username)) :
          Strategy(1, _get_user_id_from_page(username, reply))

StrategyGraphql ==
    /\ pc = StrategyOrder[2]
    /\ \E reply \in Replies(GraphqlReplies(username)) :
          Strategy(2, _get_user_id_graphql(username, reply))

StrategyWebProfile ==
    /\ pc = StrategyOrder[3]
    /\ \E reply \in Replies(WebProfileReplies(username)) :
          Strategy(3, _get_user_id_web_profile(username, reply))

StrategySearch ==
    /\ pc = StrategyOrder[4]
    /\ \E reply \in Replies(SearchReplies(username)) :
          Strategy(4, _get_user_id_search(username, reply))

\* "except InstagramError" of method 5, then line 270
MobileResult(caught) ==
    IF ~caught.ok THEN caught
    ELSE IF caught.val # PyNone THEN caught
    ELSE Raise(UserNotFound(username))

MobileCaught(outcome) ==
    MobileResult(IF outcome.ok THEN outcome ELSE CatchInstagramError(outcome))

\* how get_user_id ends at method 5, and the handler's lines 638-641 and
\* 682-687 for what it raises
Resolved(result) ==
    /\ resolved' = result
    /\ pc' = NextStep(5, result.ok)
    /\ response' = IF result.ok THEN response ELSE ResolveFailed(result.exc, ref[2])

MobileStep(reply, outcome) ==
    /\ calls' = Append(calls, Call(StrategyOrder[5], MobileClass(outcome),
                                    IF outcome.ok THEN outcome.val ELSE PyNone,
                                    reply))
    /\ Resolved(MobileCaught(outcome))
    /\ UNCHANGED <<upstream, raw, ref, username, item, extracted, others>>

\* method 5 of get_user_id, lines 261-270
StrategyMobile ==
    /\ pc = StrategyOrder[5]
    /\ \E reply \in Replies(MobileReplies(username)) :
          MobileStep(reply, MobileLookup(username, reply))

\* lines 644-663: the bare "except" around get_user_info, and the answer for a
\* private account
UserInfoStep(reply, got, user_info) ==
    /\ calls' = Append(calls, Call("user_info", FetchClass(got), PyNone, reply))
    /\ IF ~IsDict(user_info)
       THEN pc' = "done" /\ response' = Boundary(Exc("AttributeError"))
       ELSE IF Truthy(Get(user_info, "is_private", PyNone))
       THEN pc' = "done" /\ response' = RespondStories(<<>>)
       ELSE pc' = "stories" /\ response' = response
    /\ UNCHANGED <<upstream, raw, ref, username, resolved, item, extracted, others>>

UserInfoGot(reply, got) ==
    UserInfoStep(reply, got, IF got.ok THEN got.val ELSE EmptyDict)

GetUserInfo ==
    /\ pc = "info"
    /\ \E reply \in Replies(UserInfoReplies) : UserInfoGot(reply, get_user_info(reply))

\* lines 665-687: the stories answered, or the error of the fetch
Fetched(name, reply, got, stories) ==
    /\ calls' = Append(calls, Call(name, FetchClass(got), PyNone, reply))
    /\ pc' = "done"
    /\ response' = IF got.ok THEN RespondStories(stories) ELSE Boundary(got.exc)
    /\ UNCHANGED <<upstream, raw, ref, username, resolved, item, extracted, others>>

UserStoriesGot(reply, got) ==
    Fetched("stories", reply, got, IF got.ok THEN got.val ELSE <<>>)

\* lines 665-680
GetUserStories ==
    /\ pc = "stories"
    /\ \E reply \in Replies(StoriesReplies) : UserStoriesGot(reply, get_user_stories(reply))

HighlightGot(reply, got) ==
    Fetched("highlight", reply, got, IF got.ok THEN got.val.stories ELSE <<>>)

\* lines 617-630
GetHighlightStories ==
    /\ pc = "highlight"
    /\ \E reply \in Replies(HighlightReplies(ref[2])) :
          HighlightGot(reply, get_highlight_stories(ref[2], reply))

Next ==
    \/ Receive
    \/ TakeClient
    \/ OtherTakesClient
    \/ ResetMeanwhile
    \/ Dispatch
    \/ StrategyPage
    \/ StrategyGraphql
    \/ StrategyWebProfile
    \/ StrategySearch
    \/ StrategyMobile
    \/ GetUserInfo
    \/ GetUserStories
    \/ GetHighlightStories

Spec == Init /\ [][Next]_vars

(***************************************************************************)
(* The classifier on its own, over every parameter of at most MaxPieces    *)
(* pieces: the request is followed up to the classification of its         *)
(* parameter.                                                              *)
(***************************************************************************)
ParseInit == IsInput(raw, MaxPieces) /\ upstream = "up" /\ InitRequest

ParseNext == Receive

SpecParse == ParseInit /\ [][ParseNext]_vars

(***************************************************************************)
(* The extractor on its own: no request is served.                         *)
(***************************************************************************)
ExtractInit ==
    /\ IsRawItem(item)
    /\ extracted = Pending
    /\ raw = <<>>
    /\ upstream = "up"
    /\ pc = "idle"
    /\ ref = PyNone
    /\ username = <<>>
    /\ calls = <<>>
    /\ resolved = Pending
    /\ response = Pending
    /\ OthersIdle

ExtractStory ==
    /\ extracted = Pending
    /\ extracted' = _extract_story(item)
    /\ UNCHANGED <<others, item, upstream, raw, pc, ref, username, calls, resolved, response>>

ExtractNext == ExtractStory

SpecExtract == ExtractInit /\ [][ExtractNext]_vars

(***************************************************************************)
(* The two fetches on their own, on a successful answer that carries a     *)
(* batch of at most MaxItems items: item is the batch, extracted what the  *)
(* fetch made of it.                                                       *)
(***************************************************************************)
MaxItems == 3

ItemPool == {GoodItem(1), GoodItem(2), BadItem, PyNone}

SomeHighlight == <<"F","o","o">>

FetchInit ==
    /\ \E k \in 0..MaxItems : \E l \in [1..k -> ItemPool] : item = JList(l)
    /\ extracted = Pending
    /\ raw = <<>>
    /\ upstream = "up"
    /\ pc = "idle"
    /\ ref = PyNone
    /\ username = <<>>
    /\ calls = <<>>
    /\ resolved = Pending
    /\ response = Pending
    /\ OthersIdle

FetchUserStories ==
    /\ pc = "idle"
    /\ pc' = "user_stories"
    /\ extracted' = get_user_stories(Http(200, JDict([reel |-> JDict([items |-> item])])))
    /\ UNCHANGED <<others, item, upstream, raw, ref, username, calls, resolved, response>>

FetchHighlightStories ==
    /\ pc = "idle"
    /\ pc' = "highlight_stories"
    /\ extracted' = get_highlight_stories(SomeHighlight,
                        Http(200, ReelsBody(HighlightKey(SomeHighlight),
                                            JDict([items |-> item]))))
    /\ UNCHANGED <<others, item, upstream, raw, ref, username, calls, resolved, response>>

FetchNext == FetchUserStories \/ FetchHighlightStories

SpecFetch == FetchInit /\ [][FetchNext]_vars

(***************************************************************************)
(* One call through the session under its retry policy, made for a fetch.  *)
(* The adapter sends the request again while the policy allows it; what    *)
(* the session gives back goes through _request and the fetch to the       *)
(* boundary.                                                               *)
(***************************************************************************)
\* line 122
StatusForcelist == {429, 500, 502, 503, 504}

\* line 123
AllowedMethods == {"GET", "POST"}

\* Retry(...) of line 120 leaves respect_retry_after_header at its default:
\* a response of these statuses carrying Retry-After is sent again
RetryAfterStatusCodes == {413, 429, 503}

\* what the upstream does with one attempt
Answer(reply, retry_after) == [reply |-> reply, retry_after |-> retry_after]

Statuses == {200, 400, 401, 404, 413, 429, 500, 503}

Answers ==
    {Answer(Http(st, EmptyDict), ra) : st \in Statuses, ra \in BOOLEAN}
      \cup {Answer(ConnectionError, FALSE)}

\* a policy that sends again after every error status
is_retry_on_error(m, status, retry_after, left) ==
    m \in AllowedMethods /\ status >= 400

\* Retry.is_retry for a response, with the retries left
is_retry(m, status, retry_after, left) ==
    /\ m \in AllowedMethods
    /\ \/ status \in StatusForcelist
       \/ left # 0 /\ retry_after /\ status \in RetryAfterStatusCodes

\* the attempt is to be made again: a connection that failed, or a response
\* the policy retries
Retried(m, a, left) ==
    IF a.reply.kind = "http"
    THEN is_retry(m, a.reply.status, a.retry_after, left)
    ELSE TRUE

\* Retry.increment raised MaxRetryError: what requests raises for it
Exhausted(a) == IF a.reply.kind = "http" THEN RetryError ELSE ConnectionError

SessionInit ==
    /\ method \in AllowedMethods
    /\ attempts = <<>>
    /\ total = RetryTotal
    /\ returned = Pending
    /\ pc = "call"
    /\ ref = PyNone
    /\ username = <<>>
    /\ calls = <<>>
    /\ resolved = Pending
    /\ response = Pending
    /\ item = PyNone
    /\ extracted = Pending
    /\ raw = <<>>
    /\ upstream = "up"
    /\ ProxyIdle
    /\ SharedIdle

SessionGave(a, reply) ==
    /\ attempts' = Append(attempts, a)
    /\ returned' = reply
    /\ pc' = "returned"

\* lines 187, 306 under the adapter of lines 120-127: one attempt
SessionSend ==
    /\ pc = "call"
    /\ \E a \in Answers :
          IF ~Retried(method, a, total)
          THEN SessionGave(a, a.reply) /\ total' = total
          ELSE IF total - 1 < 0
          THEN SessionGave(a, Exhausted(a)) /\ total' = total - 1
          ELSE /\ attempts' = Append(attempts, a)
               /\ total' = total - 1
               /\ UNCHANGED <<pc, returned>>
    /\ UNCHANGED <<method, raw, ref, username, calls, resolved, response,
                   upstream, item, extracted, proxy, shared>>

\* lines 424, 665: the call was the one of get_user_stories
SessionStories ==
    /\ pc = "returned" /\ method = "GET"
    /\ UserStoriesGot(returned, get_user_stories(returned))

\* lines 445, 618: the call was the one of get_highlight_stories
SessionHighlight ==
    /\ pc = "returned" /\ method = "GET"
    /\ HighlightGot(returned, get_highlight_stories(SomeHighlight, returned))

SessionNext == SessionSend \/ SessionStories \/ SessionHighlight

SpecSession == SessionInit /\ [][SessionNext]_vars

(***************************************************************************)
(* The download proxy.                                                     *)
(***************************************************************************)
\* src/config.py, lines 55-60
ALLOWED_DOWNLOAD_DOMAINS ==
    <<ServiceDomain,
      <<"c","d","n">> \o ServiceDomain,
      <<"f","b","c","d","n",".","n","e","t">>,
      <<"i","n","s","t","a","g","r","a","m",".","f","c","d","n",".","n","e","t">>>>

\* the netloc of the text that begins "//"
NetlocOf(rest) ==
    IF "[" \in Range(Slice(rest, 3, NetlocEnd(rest) - 1))
    THEN Raise(ValueError("Invalid IPv6 URL"))
    ELSE Ok(Slice(rest, 3, NetlocEnd(rest) - 1))

\* the text begins "//"
HasAuthority(rest) == Len(rest) >= 2 /\ rest[1] = "/" /\ rest[2] = "/"

\* urlparse(url).netloc, or the ValueError of urlsplit
UrlNetloc(u) ==
    IF HasAuthority(AfterScheme(UrlLStrip(u)))
    THEN NetlocOf(AfterScheme(UrlLStrip(u)))
    ELSE Ok(<<>>)

AnyAllowedIn(domain) ==
    \E i \in DOMAIN ALLOWED_DOWNLOAD_DOMAINS : Contains(domain, ALLOWED_DOWNLOAD_DOMAINS[i])

\* the allowed domain looked for anywhere in the URL
is_allowed_anywhere(u) == AnyAllowedIn(StrLower(u))

\* lines 577-584
is_allowed_download_url(u) ==
    IF UrlNetloc(u).ok THEN AnyAllowedIn(StrLower(UrlNetloc(u).val)) ELSE FALSE

\* the scheme of the text, in lower case; empty when there is none
SchemeOf(t) ==
    IF AfterScheme(t) = t THEN <<>>
    ELSE StrLower(Slice(t, 1, Len(t) - Len(AfterScheme(t)) - 1))

\* urlsplit(url).scheme
UrlScheme(u) == SchemeOf(UrlLStrip(u))

\* text after the last c, the whole text when c does not occur
RECURSIVE AfterLast(_, _)
AfterLast(t, c) ==
    IF Find(t, c, 1) = 0 THEN t ELSE AfterLast(Slice(t, Find(t, c, 1) + 1, Len(t)), c)

(***************************************************************************)
(* requests.get of line 706 on the url parameter, as requests 2.31 with    *)
(* urllib3 1.26 runs it.  prepare_url strips the leading whitespace and    *)
(* has parse_url split the text, whose authority ends at the first of "/", *)
(* "?", "#" and the backslash; the URL is put together again and quoted by *)
(* requote_uri; the adapter parses it once more, has urlopen parse the     *)
(* path it sends as request target, and the connection checks the labels   *)
(* of the host before it looks the host up.  The URLs are over the         *)
(* alphabet of urlparse above, without "%" and the grave accent.           *)
(***************************************************************************)
\* the position where the authority of "//authority..." ends
AuthorityEnd(rest) ==
    LET ds == {Find(rest, c, 3) : c \in {"/", "?", "#", "\\"}} \ {0}
    IN  IF ds = {} THEN Len(rest) + 1
        ELSE CHOOSE d \in ds : \A e \in ds : d <= e

\* the authority parse_url finds, empty when there is none
Authority(u) ==
    IF HasAuthority(AfterScheme(LStripSpace(u)))
    THEN Slice(AfterScheme(LStripSpace(u)), 3, AuthorityEnd(AfterScheme(LStripSpace(u))) - 1)
    ELSE <<>>

\* host and port as written, after the user information
HostPort(u) == AfterLast(Authority(u), "@")

\* requote_uri on a text without "%": quote() replaces the characters of the
\* alphabet that are neither unreserved nor in its safe set
RECURSIVE Quoted(_)
Quoted(t) ==
    LET quote(c) ==
            CASE c = " "  -> <<"%", "2", "0">>
              [] c = "\"" -> <<"%", "2", "2">>
              [] c = "<"  -> <<"%", "3", "C">>
              [] c = ">"  -> <<"%", "3", "E">>
              [] c = "\\" -> <<"%", "5", "C">>
              [] c = "^"  -> <<"%", "5", "E">>
              [] c = "{"  -> <<"%", "7", "B">>
              [] c = "|"  -> <<"%", "7", "C">>
              [] c = "}"  -> <<"%", "7", "D">>
              [] OTHER    -> <<c>>
    IN  IF t = <<>> THEN <<>>
        ELSE IF Len(t) = 1 THEN quote(t[1])
        ELSE Quoted(SubSeq(t, 1, Len(t) \div 2))
               \o Quoted(SubSeq(t, Len(t) \div 2 + 1, Len(t)))

\* the host requests.get connects to: the host as written, quoted, in lower
\* case
UrlHost(u) == StrLower(Quoted(Before(HostPort(u), ":")))

\* the port written after the host, empty when there is none
PortOf(host_port) ==
    IF Find(host_port, ":", 1) = 0 THEN <<>>
    ELSE Slice(host_port, Find(host_port, ":", 1) + 1, Len(host_port))

\* int(port) of a text of digits
RECURSIVE PortNumber(_)
PortNumber(digits) ==
    IF digits = <<>> THEN 0
    ELSE 10 * PortNumber(SubSeq(digits, 1, Len(digits) - 1))
           + (CHOOSE d \in 0..9 : DigitChars[d + 1] = digits[Len(digits)])

\* the port parse_url accepts: digits, at most five after the leading zeros,
\* of a number up to 65535
PortAccepted(port) ==
    /\ \A i \in DOMAIN port : port[i] \in Range(DigitChars)
    /\ Len(StrLStrip(port, "0")) <= 5
    /\ PortNumber(StrLStrip(port, "0")) <= 65535

\* _remove_path_dot_segments of urllib3
RemoveDotSegments(path) ==
    LET RECURSIVE Fold(_, _)
        Fold(segments, output) ==
            IF segments = <<>> THEN output
            ELSE Fold(Tail(segments),
                      IF Head(segments) = <<".">> THEN output
                      ELSE IF Head(segments) # <<".", ".">>
                      THEN Append(output, Head(segments))
                      ELSE IF output # <<>> THEN SubSeq(output, 1, Len(output) - 1)
                      ELSE output)
        output == Fold(StrSplit(path, "/"), <<>>)
        rooted == IF /\ path # <<>> /\ path[1] = "/"
                     /\ (output = <<>> \/ output[1] # <<>>)
                  THEN <<<<>>>> \o output ELSE output
        closed == IF EndsWith(path, <<"/", ".">>) \/ EndsWith(path, <<"/", ".", ".">>)
                  THEN Append(rooted, <<>>) ELSE rooted
    IN  StrJoin(closed, "/")

\* host.encode("idna") of create_connection accepts an ASCII host: no label
\* is empty, but for the last one, or longer than 63 characters
LabelsAccepted(host) ==
    LET labels == StrSplit(host, ".")
    IN  /\ \A i \in 1..(Len(labels) - 1) : Len(labels[i]) > 0 /\ Len(labels[i]) < 64
        /\ Len(labels[Len(labels)]) < 64

\* requests.get of line 706: "sent" when a request is sent out to UrlHost,
\* "RequestException" when MissingSchema, InvalidSchema or InvalidURL is
\* raised before that, "error" when urlparse (ValueError) or urllib3
\* (LocationParseError) raise an exception that is no RequestException
RequestsGet(u) ==
    LET \* url.lstrip() of prepare_url
        s == LStripSpace(u)
        scheme == SchemeOf(s)
        \* prepare_url leaves the text alone
        skipped ==
            /\ ":" \in Range(s)
            /\ ~(Len(s) >= 4 /\ StrLower(SubSeq(s, 1, 4)) = <<"h", "t", "t", "p">>)
        host == Before(HostPort(u), ":")
        \* parse_url finds a scheme (it reads no "." in one), splits the
        \* authority into host and port, and prepare_url accepts the host
        prepared ==
            /\ scheme # <<>> /\ "." \notin Range(scheme)
            /\ "[" \notin Range(host)
            /\ PortAccepted(PortOf(HostPort(u)))
            /\ host # <<>>
            /\ host[1] \notin {".", "*"}
        \* the path parse_url finds: the text after the authority, up to the
        \* query or the fragment, without its dot segments
        rest == AfterScheme(s)
        path == RemoveDotSegments(
                    Before(Before(Slice(rest, AuthorityEnd(rest), Len(rest)), "#"), "?"))
        \* urlopen parses the path it sends as request target: a path that
        \* begins "//" is read as an authority, whose port has to be one
        \* parse_url accepts
        target ==
            HasAuthority(path) =>
                PortAccepted(PortOf(AfterLast(Before(Slice(path, 3, Len(path)), "/"), "@")))
    IN  IF skipped
        THEN IF UrlNetloc(s).ok THEN "RequestException" ELSE "error"
        ELSE IF ~prepared THEN "RequestException"
        ELSE IF scheme \notin {<<"h","t","t","p">>, <<"h","t","t","p","s">>}
        THEN IF "[" \in Range(Authority(u)) THEN "error" ELSE "RequestException"
        ELSE IF ~target THEN "error"
        ELSE IF ~LabelsAccepted(UrlHost(u)) THEN "error"
        ELSE "sent"

\* requests.get of line 706 sends a request out
SentOut(u) == RequestsGet(u) = "sent"

MaxUrlPieces == 4

UrlPieces ==
    {<<"h","t","t","p","s",":","/","/">>,
     ServiceDomain,
     <<"F","B","C","D","N",".","n","e","t">>,
     <<"e","v","i","l",".","c","o","m">>,
     <<"c","d","n">>, <<".">>, <<"@">>, <<"/">>, <<"[">>,
     <<" ">>, <<"\\">>, <<":">>, <<"6","5","5","3","6">>, <<"*">>,
     <<"/","/",":">>, <<"<">>}

IsUrl(text, n) == \E k \in 0..n : \E ps \in [1..k -> UrlPieces] : text = Concat(ps)

\* requests.get follows redirects (allow_redirects defaults to True): a reply
\* of one of these statuses that carries a Location header is answered with a
\* request to the location
RedirectStatuses == {301, 302, 303, 307, 308}

Redirect(status, location) == [kind |-> "redirect", status |-> status, location |-> location]

\* the locations the media host redirects to: absolute URLs, of a host outside
\* the allowed domains and of one inside
RedirectTargets ==
    {<<"h","t","t","p","s",":","/","/","e","v","i","l",".","c","o","m","/","y">>,
     <<"h","t","t","p","s",":","/","/","c","d","n">> \o ServiceDomain \o <<"/","z">>}

\* the redirects followed for one download; requests itself gives up, with
\* TooManyRedirects, after 30
MaxRedirects == 2

\* what the media host does with a fetch
MediaReplies ==
    {Http(200, PyNone), Http(204, PyNone), Http(302, PyNone), Http(304, PyNone),
     Http(404, PyNone), Http(500, PyNone), ConnectionError, Timeout}
      \cup {Redirect(302, t) : t \in RedirectTargets}

DownloadInit ==
    /\ IsUrl(media_url, MaxUrlPieces)
    /\ media_type \in {"image", "video"}
    /\ fetched = <<>>
    /\ pc = "download"
    /\ response = Pending
    /\ method = "GET" /\ attempts = <<>> /\ total = RetryTotal /\ returned = Pending
    /\ raw = <<>> /\ upstream = "up" /\ ref = PyNone /\ username = <<>>
    /\ calls = <<>> /\ resolved = Pending /\ item = PyNone /\ extracted = Pending
    /\ SharedIdle

DownloadUnchanged ==
    UNCHANGED <<media_url, media_type, method, attempts, total, returned, raw, upstream,
                ref, username, calls, resolved, item, extracted, shared>>

\* lines 693-702: the parameter checked
DownloadRejected ==
    /\ pc = "download"
    /\ media_url = <<>> \/ ~is_allowed_download_url(media_url)
    /\ response' = IF media_url = <<>> THEN Respond(400, "URL parameter is required", NoArg)
                   ELSE Respond(400, "Invalid download URL", NoArg)
    /\ pc' = "done"
    /\ fetched' = fetched
    /\ DownloadUnchanged

\* lines 704-713: requests.get called with the URL; what it raises before it
\* sends is caught on line 741 when it is a RequestException and is answered
\* by the handler of lines 835-837 otherwise
DownloadFetch ==
    /\ pc = "download"
    /\ media_url # <<>> /\ is_allowed_download_url(media_url)
    /\ IF SentOut(media_url)
       THEN pc' = "fetching" /\ fetched' = Append(fetched, media_url) /\ response' = response
       ELSE /\ pc' = "done" /\ fetched' = fetched
            /\ response' = IF RequestsGet(media_url) = "RequestException"
                           THEN Respond(500, "Failed to download media", NoArg)
                           ELSE Respond(500, "Internal server error", NoArg)
    /\ DownloadUnchanged

\* lines 714-739: the media streamed back
Streamed(content_type) ==
    [status |-> 200, text |-> "", arg |-> NoArg, stories |-> <<>>,
     content_type |-> content_type]

\* line 706, inside requests.get: the redirect of the media host followed, the
\* location fetched without a look at is_allowed_download_url
DownloadRedirected ==
    /\ pc = "fetching"
    /\ Len(fetched) <= MaxRedirects
    /\ \E reply \in MediaReplies :
          /\ reply.kind = "redirect"
          /\ reply.status \in RedirectStatuses
          /\ fetched' = Append(fetched, reply.location)
    /\ pc' = pc
    /\ response' = response
    /\ DownloadUnchanged

\* raise_for_status of line 714 raises HTTPError for a status of 400 to 599
RaisesForStatus(status) == status >= 400 /\ status < 600

\* lines 706-743: the last reply streamed back with status 200, whatever its
\* own status below 400; an error status or a failed request answered 500
DownloadAnswered ==
    /\ pc = "fetching"
    /\ \E reply \in MediaReplies :
          /\ reply.kind # "redirect"
          /\ response' = IF reply.kind = "http" /\ ~RaisesForStatus(reply.status)
                         THEN Streamed(IF media_type = "video" THEN "video/mp4"
                                       ELSE "image/jpeg")
                         ELSE Respond(500, "Failed to download media", NoArg)
    /\ pc' = "done"
    /\ fetched' = fetched
    /\ DownloadUnchanged

DownloadNext == DownloadRejected \/ DownloadFetch \/ DownloadRedirected \/ DownloadAnswered

SpecDownload == DownloadInit /\ [][DownloadNext]_vars

(***************************************************************************)
(* get_client and reset_client run by threads of one process.  The server  *)
(* of app.run handles each request in a thread of its own, so the          *)
(* statements of get_client of different requests interleave.              *)
(***************************************************************************)
ClientInit ==
    /\ SharedIdle
    /\ pc = "serving"
    /\ method = "GET" /\ attempts = <<>> /\ total = RetryTotal /\ returned = Pending
    /\ ProxyIdle
    /\ raw = <<>> /\ upstream = "up" /\ ref = PyNone /\ username = <<>>
    /\ calls = <<>> /\ resolved = Pending /\ response = Pending
    /\ item = PyNone /\ extracted = Pending

GetClient == \E t \in Threads : ClientTest(t) \/ ClientConstruct(t) \/ ClientReturn(t)

ClientNext == GetClient \/ ResetClient

SpecClient == ClientInit /\ [][ClientNext]_vars

(***************************************************************************)
(* Properties of the resolver, checked under Spec.                         *)
(***************************************************************************)
\* the calls of get_user_id among the upstream calls
ResolverCalls == SelectSeq(calls, LAMBDA c : c.name \in Range(StrategyOrder))

Failed(c) == c.result \in {"none", "error"}

\* get_user_id has been entered
InResolver == pc \in Range(StrategyOrder) \/ resolved # Pending

\* C1: the five strategies are invoked in the order page, GraphQL search,
\* profile info, legacy search, mobile; strategy k is invoked exactly when the
\* strategies 1..k-1 were all invoked and each failed (no match or error);
\* once a strategy returns an id no later strategy is invoked and that id is
\* the result of get_user_id.
ChainStopsAtFirstResult ==
    /\ Len(ResolverCalls) <= Len(StrategyOrder)
    /\ \A i \in DOMAIN ResolverCalls :
          /\ ResolverCalls[i].name = StrategyOrder[i]
          /\ i < Len(ResolverCalls) => Failed(ResolverCalls[i])
          /\ ResolverCalls[i].result = "id" =>
                /\ resolved = Ok(ResolverCalls[i].id)
                /\ pc \notin Range(StrategyOrder)
    /\ pc \in Range(StrategyOrder) => pc = StrategyOrder[Len(ResolverCalls) + 1]
    /\ ( /\ InResolver
         /\ Len(ResolverCalls) < Len(StrategyOrder)
         /\ \A i \in DOMAIN ResolverCalls : Failed(ResolverCalls[i]) )
          => pc = StrategyOrder[Len(ResolverCalls) + 1]

\* the third strategy gave the id after an error and a no-match, and the
\* request went on to its end without another lookup
ChainStoppedAtThird ==
    /\ pc = "done"
    /\ Len(ResolverCalls) = 3
    /\ ResolverCalls[1].result = "error"
    /\ ResolverCalls[2].result = "none"
    /\ ResolverCalls[3].result = "id"
    /\ resolved = Ok(ResolverCalls[3].id)
    /\ Len(calls) = 5

AllNoMatch ==
    /\ Len(ResolverCalls) = Len(StrategyOrder)
    /\ \A i \in DOMAIN ResolverCalls : ResolverCalls[i].result = "none"

\* n is x lowercased, without the '@' and the blanks before it and without
\* the blanks after it, and begins with no '@'
IsNormalized(n, x) ==
    /\ \A i \in DOMAIN n : n[i] \notin Range(UpperChars)
    /\ n = <<>> \/ n[1] # "@"
    /\ \E i \in 1..(Len(x) + 1) : \E j \in 0..Len(x) :
          /\ n = StrLower(SubSeq(x, i, j))
          /\ \A k \in 1..(i - 1) : x[k] \in {"@", " "}
          /\ \A k \in (j + 1)..Len(x) : x[k] = " "

IsNotFound(outcome) ==
    /\ outcome # Pending
    /\ ~outcome.ok
    /\ outcome.exc.type = "InstagramError"
    /\ outcome.exc.status_code = 404

\* C2: when all five strategies report no match, get_user_id fails with the
\* InstagramError of status 404 whose message carries the normalized username
\* (lowercased, leading '@' stripped); it fails so only after each of the
\* five strategies was invoked exactly once.
NotFoundAfterAllFive ==
    /\ AllNoMatch =>
          /\ IsNotFound(resolved)
          /\ resolved.exc.text = "User '%s' not found. Please check the username."
          /\ resolved.exc.arg = username
          /\ IsNormalized(username, ref[2])
    /\ IsNotFound(resolved) =>
          /\ Len(ResolverCalls) = Len(StrategyOrder)
          /\ \A i \in DOMAIN ResolverCalls : ResolverCalls[i].name = StrategyOrder[i]

\* five no-matches for a name that the normalization changed
NotFoundForNormalized ==
    /\ AllNoMatch
    /\ IsNotFound(resolved)
    /\ resolved.exc.arg # ref[2]
    /\ \E i \in DOMAIN ref[2] : ref[2][i] \in Range(UpperChars)
    /\ response.status = 404

\* C3: however a strategy fails, get_user_id either returns an id or fails
\* with the not-found error after all five strategies were attempted; no
\* other error escapes it.
ResolverSwallowsEveryFailure ==
    \/ resolved = Pending
    \/ resolved.ok
    \/ /\ IsNotFound(resolved)
       /\ resolved.exc = UserNotFound(username)
       /\ Len(ResolverCalls) = Len(StrategyOrder)

(***************************************************************************)
(* Properties of the classifier, checked under SpecParse.                  *)
(***************************************************************************)
\* parse_instagram_input has been called on raw, and nothing after it ran
Classified_ == pc = "parsed" \/ (pc = "done" /\ calls = <<>> /\ raw # <<>>)

HasDomain == Contains(StrStrip(raw), ServiceDomain)

\* the path as a parser sees it that takes any host
LenientPath(url0) ==
    LET url == AfterScheme(url0)
        rest == IF Len(url) >= 2 /\ url[1] = "/" /\ url[2] = "/"
                THEN Slice(url, NetlocEnd(url), Len(url)) ELSE url
    IN  Before(Before(rest, "#"), "?")

\* the segments of the URL path of raw
Segs == PathParts(LenientPath(StrStrip(raw)))

\* urlparse takes the URL
Parsable == UrlPath(StrStrip(raw)).ok

FirstAt(seg, i) == Segs[i] = seg /\ \A j \in 1..(i - 1) : Segs[j] # seg

YieldsUsername(v) == pc = "parsed" /\ ref = <<"username", v>>

YieldsHighlight(v) == pc = "parsed" /\ ref = <<"highlight", v>>

\* the classifier raised ValueError and the boundary answered
Rejected ==
    /\ pc = "done"
    /\ calls = <<>>
    /\ response.text \in {"Invalid highlight URL", "Invalid stories URL",
                          "Could not parse Instagram URL", "Invalid IPv6 URL"}

\* C4 as stated: for an input with the service domain whose path has a segment
\* "stories" followed by a segment <name>, the result is Username(<name>),
\* whatever other segments the path contains.
StoriesUrlYieldsName ==
    (Classified_ /\ HasDomain) =>
        \A i \in 1..(Len(Segs) - 1) :
            Segs[i] = SegStories => YieldsUsername(Segs[i + 1])

\* C4, amended: for an input with the service domain that urlparse takes,
\* whose path has no segment "highlights" and whose first segment "stories" is
\* followed by a segment <name>, the result is Username(<name>) exactly.
StoriesUrlYieldsFirstName ==
    (Classified_ /\ HasDomain /\ Parsable /\ SegHighlights \notin Range(Segs)) =>
        \A i \in 1..(Len(Segs) - 1) :
            FirstAt(SegStories, i) => YieldsUsername(Segs[i + 1])

\* a stories URL with further segments, classified
StoriesUrlClassified ==
    /\ Classified_ /\ HasDomain /\ Parsable
    /\ Len(Segs) >= 3
    /\ FirstAt(SegStories, 2)
    /\ YieldsUsername(<<"F","o","o">>)

\* C5 as stated: for an input with the service domain whose path has a segment
\* "highlights" followed by a segment <id>, the result is HighlightId(<id>),
\* <id> unchanged, and never a Username.
HighlightUrlYieldsId ==
    (Classified_ /\ HasDomain) =>
        \A i \in 1..(Len(Segs) - 1) :
            Segs[i] = SegHighlights => YieldsHighlight(Segs[i + 1])

\* C5, amended: for an input with the service domain that urlparse takes and
\* whose first segment "highlights" is followed by a segment <id>, the result
\* is HighlightId(<id>), <id> unchanged, and never a Username.
HighlightUrlYieldsFirstId ==
    (Classified_ /\ HasDomain /\ Parsable) =>
        \A i \in 1..(Len(Segs) - 1) :
            FirstAt(SegHighlights, i) => YieldsHighlight(Segs[i + 1])

\* a highlight URL with a "stories" segment too, classified with the case of
\* the id kept
HighlightUrlClassified ==
    /\ Classified_ /\ HasDomain /\ Parsable
    /\ SegStories \in Range(Segs)
    /\ \E i \in 1..(Len(Segs) - 1) : FirstAt(SegHighlights, i)
    /\ YieldsHighlight(<<"F","o","o">>)

\* the recognized shape lacks its value
ShapeLacksValue ==
    IF SegHighlights \in Range(Segs) THEN FirstAt(SegHighlights, Len(Segs))
    ELSE IF SegStories \in Range(Segs) THEN FirstAt(SegStories, Len(Segs))
    ELSE Segs = <<>>

\* a response of status 400 is given before any upstream call
RejectedBeforeAnyCall ==
    /\ Rejected => response.status = 400
    /\ (response # Pending /\ response.status = 400) => (pc = "done" /\ calls = <<>>)

\* C6 as stated: an input with the service domain fails with ValueError
\* exactly when the recognized shape lacks its value (a "highlights" segment
\* with nothing after it, otherwise a "stories" segment with nothing after it,
\* otherwise an empty path); the boundary then answers 400 and no upstream
\* call is made.
FailsExactlyWhenShapeLacksValue ==
    /\ (Classified_ /\ HasDomain) => (Rejected <=> ShapeLacksValue)
    /\ RejectedBeforeAnyCall

\* C6, amended: an input with the service domain fails with ValueError
\* exactly when urlparse rejects it (a host with an unbalanced bracket) or the
\* recognized shape lacks its value; the boundary then answers 400 and no
\* upstream call is made.
FailsExactlyWhenUnparsableOrShapeLacksValue ==
    /\ (Classified_ /\ HasDomain) => (Rejected <=> (~Parsable \/ ShapeLacksValue))
    /\ RejectedBeforeAnyCall

\* a stories URL without a name, rejected with 400 before any upstream call
StoriesUrlRejected ==
    /\ Classified_ /\ HasDomain /\ Parsable
    /\ SegHighlights \notin Range(Segs)
    /\ SegStories \in Range(Segs)
    /\ ShapeLacksValue
    /\ Rejected
    /\ response.status = 400

StripOneAt(s) == IF s # <<>> /\ s[1] = "@" THEN Tail(s) ELSE s

RECURSIVE StripEveryAt(_)
StripEveryAt(s) == IF s # <<>> /\ s[1] = "@" THEN StripEveryAt(Tail(s)) ELSE s

\* C7 as stated: an input without the service domain yields the Username
\* whose value is the input trimmed of surrounding whitespace, stripped of a
\* leading '@' and lowercased; never a HighlightId, never a failure.
PlainHandleStripsOneAt ==
    (pc \in {"parsed", "done"} /\ raw # <<>> /\ ~HasDomain) =>
        YieldsUsername(StrLower(StripOneAt(StrStrip(raw))))

\* C7, amended: an input without the service domain yields the Username whose
\* value is the input trimmed of surrounding whitespace, stripped of every
\* leading '@' and lowercased; never a HighlightId, never a failure.
PlainHandleStripsEveryAt ==
    (pc \in {"parsed", "done"} /\ raw # <<>> /\ ~HasDomain) =>
        YieldsUsername(StrLower(StripEveryAt(StrStrip(raw))))

\* " @Foo" classified as the username foo
PlainHandleClassified ==
    /\ raw = <<" ", "@", "F", "o", "o">>
    /\ YieldsUsername(<<"f", "o", "o">>)

(***************************************************************************)
(* Properties of the extractor, checked under SpecExtract.                 *)
(***************************************************************************)
\* _extract_story returned a story
StoryReturned == extracted # Pending /\ extracted.ok /\ extracted.val # PyNone

\* the item carries a non-empty list of image candidates
HasImageCandidates ==
    /\ IsDict(item)
    /\ HasKey(item, "image_versions2")
    /\ IsDict(item.v.image_versions2)
    /\ HasKey(item.v.image_versions2, "candidates")
    /\ IsList(item.v.image_versions2.v.candidates)
    /\ item.v.image_versions2.v.candidates.v # <<>>

ImageCandidates == item.v.image_versions2.v.candidates.v

HasVideoCandidates ==
    /\ IsDict(item)
    /\ HasKey(item, "video_versions")
    /\ IsList(item.v.video_versions)
    /\ item.v.video_versions.v # <<>>

VideoCandidates == item.v.video_versions.v

IsVideo == IsDict(item) /\ HasKey(item, "media_type") /\ item.v.media_type = JInt(2)

\* width * height of a candidate, a missing one counting as 0
Side(c, k) == IF HasKey(c, k) THEN c.v[k].v ELSE 0

\* the widths and heights given are numbers
SizesAreInts(l) ==
    \A i \in DOMAIN l :
        IsDict(l[i]) /\ \A k \in {"width", "height"} : HasKey(l[i], k) => IsInt(l[i].v[k])

Area(c) == Side(c, "width") * Side(c, "height")

\* position i holds the first of the candidates of greatest area
IsFirstLargest(l, i) ==
    /\ \A j \in DOMAIN l : Area(l[j]) <= Area(l[i])
    /\ \A j \in 1..(i - 1) : Area(l[j]) < Area(l[i])

UrlOfFirstLargest(l) ==
    Get(l[CHOOSE i \in DOMAIN l : IsFirstLargest(l, i)], "url", PyNone)

\* C8: of an item with a non-empty image-candidate list, the story's
\* thumbnail_url is the URL of a candidate of greatest width*height (a missing
\* width or height counting as 0), the first of them in the list; the same
\* rule gives video_url from the video candidates of a video item.
LargestCandidateChosen ==
    StoryReturned =>
        /\ (HasImageCandidates /\ SizesAreInts(ImageCandidates)) =>
              extracted.val.thumbnail_url = UrlOfFirstLargest(ImageCandidates)
        /\ (IsVideo /\ HasVideoCandidates /\ SizesAreInts(VideoCandidates)) =>
              extracted.val.video_url = UrlOfFirstLargest(VideoCandidates)

\* two image candidates of the same area, the smaller one listed first among
\* the video candidates
TieAndLaterLargest ==
    /\ StoryReturned
    /\ HasImageCandidates
    /\ Len(ImageCandidates) = 2
    /\ SizesAreInts(ImageCandidates)
    /\ Area(ImageCandidates[1]) = Area(ImageCandidates[2])
    /\ Area(ImageCandidates[1]) > 0
    /\ HasKey(ImageCandidates[1], "url")
    /\ extracted.val.thumbnail_url = ImageCandidates[1].v.url
    /\ IsVideo /\ HasVideoCandidates
    /\ Len(VideoCandidates) = 2
    /\ SizesAreInts(VideoCandidates)
    /\ Area(VideoCandidates[1]) < Area(VideoCandidates[2])
    /\ HasKey(VideoCandidates[2], "url")
    /\ extracted.val.video_url = VideoCandidates[2].v.url

\* C9: of an item whose media type is not video (1, or absent), the story's
\* video_url is null even when the item carries video candidates.
NoVideoUrlUnlessVideo ==
    (StoryReturned /\ ~IsVideo) => extracted.val.video_url = PyNone

\* an image item with video candidates, extracted
ImageItemWithVideoCandidates ==
    /\ StoryReturned
    /\ HasKey(item, "media_type")
    /\ item.v.media_type = JInt(1)
    /\ HasVideoCandidates
    /\ HasKey(VideoCandidates[1], "url")
    /\ extracted.val.video_url = PyNone

\* C10: for every raw item, well-formed or not, _extract_story returns a
\* story or None; no exception leaves it.
ExtractStoryIsTotal ==
    extracted # Pending =>
        /\ extracted.ok
        /\ extracted.val = PyNone \/ extracted.val.t = "story"

\* an item whose candidate list holds a null entry, extracted to None
MalformedItemGivesNone ==
    /\ HasImageCandidates
    /\ PyNone \in Range(ImageCandidates)
    /\ extracted = Ok(PyNone)

(***************************************************************************)
(* Properties of the fetches, checked under SpecFetch.                     *)
(***************************************************************************)
\* the items of the batch whose extraction gives a story, in upstream order
Extractable == SelectSeq(item.v, LAMBDA d : _extract_story(d).val # PyNone)

FetchedStories ==
    IF pc = "highlight_stories" THEN extracted.val.stories ELSE extracted.val

\* C11: the story list of get_user_stories and of get_highlight_stories is
\* the upstream item sequence without the items whose extraction failed:
\* every item that extracts appears once, in upstream order, and a malformed
\* item neither fails the fetch nor drops another item.
StoriesAreExtractableItemsInOrder ==
    pc \in {"user_stories", "highlight_stories"} =>
        /\ extracted.ok
        /\ FetchedStories = [i \in DOMAIN Extractable |-> _extract_story(Extractable[i]).val]

\* a malformed item between two good ones, dropped by the highlight fetch
MalformedItemDropped ==
    /\ pc = "highlight_stories"
    /\ item = JList(<<GoodItem(1), BadItem, GoodItem(2)>>)
    /\ extracted.ok
    /\ Len(FetchedStories) = 2
    /\ FetchedStories[1].pk = JStr(<<"1">>)
    /\ FetchedStories[2].pk = JStr(<<"2">>)

(***************************************************************************)
(* Properties of a whole request, checked under Spec.                      *)
(***************************************************************************)
\* the call made last and what the upstream answered to it
LastCall == calls[Len(calls)]

Answered(name) == calls # <<>> /\ LastCall.name = name /\ pc = "done"

\* a successful answer whose reels map, absent or present, lacks the key
LacksHighlight(reply, key) ==
    /\ reply.kind = "http" /\ reply.status = 200
    /\ IsDict(reply.body)
    /\ IsDict(Get(reply.body, "reels", EmptyDict))
    /\ ~HasKey(Get(reply.body, "reels", EmptyDict), key)

    /\ response.status = 404

\* a successful answer for an account with no active story: no reel, a null
\* reel, or a reel with no items (none listed, or an empty list)
NoActiveStory(reply) ==
    /\ reply.kind = "http" /\ reply.status = 200
    /\ IsDict(reply.body)
    /\ \/ ~Truthy(Get(reply.body, "reel", PyNone))
       \/ /\ IsDict(Get(reply.body, "reel", PyNone))
          /\ IsList(Get(Get(reply.body, "reel", PyNone), "items", EmptyList))
          /\ Get(Get(reply.body, "reel", PyNone), "items", EmptyList).v = <<>>

\* C13: when the active-stories endpoint answers successfully for an account
\* with no active story, get_user_stories returns the empty list and not an
\* error, and the request ends with status 200 and no stories.
NoActiveStoryIsEmptyList ==
    (Answered("stories") /\ NoActiveStory(LastCall.reply)) =>
        /\ get_user_stories(LastCall.reply) = Ok(<<>>)
        /\ LastCall.result = "ok"
        /\ response.status = 200
        /\ response.stories = <<>>

\* the endpoint answered {"reel": null}
NullReelServed ==
    /\ Answered("stories")
    /\ LastCall.reply = Http(200, JDict([reel |-> PyNone]))
    /\ response.status = 200

\* some call of the request made through _request was answered 401
CredentialsRejected ==
    \E i \in DOMAIN calls :
        calls[i].reply.kind = "http" /\ calls[i].reply.status = 401

\* C14: a request during which the upstream answered 401 to the mobile
\* lookup, the user-info call, the active-stories fetch or the highlight
\* fetch ends with the session-expired error of status 401, never with 404,
\* another error or a success.
CredentialsRejectionSurfaces ==
    (pc = "done" /\ CredentialsRejected) =>
        /\ response.status = 401
        /\ response.text = "Session expired - please update session credentials"

(***************************************************************************)
(* Properties of one call through the session, checked under SpecSession.  *)
(***************************************************************************)
\* every attempt of the call was answered with this status
EveryAttemptAnswered(status) ==
    /\ attempts # <<>>
    /\ \A i \in DOMAIN attempts :
          attempts[i].reply.kind = "http" /\ attempts[i].reply.status = status

\* C15: when the upstream answers 429 to every attempt until the retry
\* policy is exhausted, _request fails with the rate-limited error of status
\* 429 and the fetch surfaces status 429 at the boundary.
RateLimitSurfacesAs429 ==
    (EveryAttemptAnswered(429) /\ returned # Pending /\ method = "GET") =>
        /\ _request(returned) =
              Raise(InstagramError("Rate limited - please wait before trying again",
                                   NoArg, 429))
        /\ pc = "done" => response.status = 429

\* the attempts that were followed by another one
Resent == 1..(Len(attempts) - 1)

StatusOf(i) == attempts[i].reply.status

NeverResent(i) ==
    (attempts[i].reply.kind = "http" /\ StatusOf(i) \in {400, 401, 404}) =>
        /\ i = Len(attempts)
        /\ returned = attempts[i].reply
(***************************************************************************)
(* Properties of the download proxy, checked under SpecDownload.           *)
(***************************************************************************)
\* the host part of the URL contains an allowed domain as a substring
HostPartHoldsAllowed(u) ==
    /\ UrlNetloc(u).ok
    /\ \E i \in DOMAIN ALLOWED_DOWNLOAD_DOMAINS :
          Contains(StrLower(UrlNetloc(u).val), ALLOWED_DOWNLOAD_DOMAINS[i])

\* C16: the proxy validates before it fetches: a fetch of the media URL is
\* issued only when the host part of the URL contains an allowed domain as a
\* substring; otherwise the answer is 400 and nothing is fetched.
ValidatedBeforeFetched ==
    /\ fetched # <<>> => fetched[1] = media_url /\ HostPartHoldsAllowed(media_url)
    /\ pc = "download" => fetched = <<>>
    /\ (pc = "done" /\ ~HostPartHoldsAllowed(media_url)) =>
          response.status = 400 /\ fetched = <<>>

\* a URL with an allowed domain in its path only was refused
PathOnlyDomainRefused ==
    /\ pc = "done"
    /\ Contains(media_url, ServiceDomain)
    /\ ~HostPartHoldsAllowed(media_url)
    /\ response = Respond(400, "Invalid download URL", NoArg)

\* the host is an allowed domain or a subdomain of one
HostIsAllowed(h) ==
    \E i \in DOMAIN ALLOWED_DOWNLOAD_DOMAINS :
        h = ALLOWED_DOWNLOAD_DOMAINS[i] \/ EndsWith(h, <<".">> \o ALLOWED_DOWNLOAD_DOMAINS[i])

\* C20: the proxy is no open proxy: a fetch is only ever issued to a host
\* that is an allowed download domain or a subdomain of one; a URL whose host
\* merely contains an allowed domain as a substring is answered 400 and not
\* fetched.
OnlyAllowedHostsFetched ==
    /\ \A i \in DOMAIN fetched : HostIsAllowed(UrlHost(fetched[i]))
    /\ (pc = "done" /\ UrlNetloc(media_url).ok /\ ~HostIsAllowed(UrlHost(media_url))) =>
          response.status = 400 /\ fetched = <<>>

(***************************************************************************)
(* The invariant of the stories returned, checked under SpecExtract.       *)
(***************************************************************************)
\* the item carries a list of image candidates, empty or not
HasImageCandidateList ==
    /\ IsDict(item)
    /\ HasKey(item, "image_versions2")
    /\ IsDict(item.v.image_versions2)
    /\ HasKey(item.v.image_versions2, "candidates")
    /\ IsList(item.v.image_versions2.v.candidates)

\* every candidate of the list carries a URL
AllCarryUrl(l) ==
    \A i \in DOMAIN l : IsDict(l[i]) /\ HasKey(l[i], "url") /\ l[i].v.url # PyNone

\* C17 as stated: in every story returned, video_url is set when the item is
\* a video with at least one video candidate, and thumbnail_url is set when
\* the item has an image-candidate list, whatever its media type.
StoryItemInvariant ==
    StoryReturned =>
        /\ (IsVideo /\ HasVideoCandidates) => extracted.val.video_url # PyNone
        /\ HasImageCandidateList => extracted.val.thumbnail_url # PyNone

\* C17, amended: in every story returned, video_url is set when the item is
\* a video with at least one video candidate, each carrying a URL, and
\* thumbnail_url is set when the item has a non-empty image-candidate list,
\* each candidate carrying a URL, whatever its media type.
StoryItemInvariantOfUrlCandidates ==
    StoryReturned =>
        /\ (IsVideo /\ HasVideoCandidates /\ AllCarryUrl(VideoCandidates)) =>
              extracted.val.video_url # PyNone
        /\ (HasImageCandidates /\ AllCarryUrl(ImageCandidates)) =>
              extracted.val.thumbnail_url # PyNone

\* a video with candidates of both kinds, extracted with both URLs
VideoStoryWithPoster ==
    /\ StoryReturned
    /\ IsVideo /\ HasVideoCandidates /\ AllCarryUrl(VideoCandidates)
    /\ HasImageCandidates /\ AllCarryUrl(ImageCandidates)
    /\ extracted.val.video_url # PyNone
    /\ extracted.val.thumbnail_url # PyNone

(***************************************************************************)
(* The client of the process, checked under SpecClient.                    *)
(***************************************************************************)
\* C19: under every interleaving of requests calling get_client and of
\* reset_client, at most one InstagramClient is ever constructed and every
\* request uses that one instance.
SingleSharedClient ==
    /\ constructed <= 1
    /\ \A t \in Threads : at[t] = "serve" => using[t] = 1

(***************************************************************************)
(* The value of the reference, checked under Spec.                         *)
(***************************************************************************)
\* C21: for every non-empty parameter parse_instagram_input either fails
\* with the invalid-input error or yields a username or highlight id that is
\* not empty, so the resolver and the fetcher never run on an empty handle
\* or id.
ReferenceValueNeverEmpty ==
    /\ pc = "parsed" => ref[2] # <<>>
    /\ pc = "highlight" => ref[2] # <<>>
    /\ pc \in Range(StrategyOrder) => username # <<>>
    /\ ResolverCalls # <<>> => username # <<>>

=============================================================================
